---- MODULE Spec2Model ----
(***************************************************************************)
(* Verification model of the Snowflake -> Meta custom-audience transfer    *)
(* pipeline (lionking1994/Auto-Upload-Meta).                               *)
(*                                                                         *)
(* The module holds several sub-models that share one variable list; each  *)
(* has its own initial predicate and next-state relation and leaves the    *)
(* variables of the other sub-models at their idle values:                 *)
(*   SpecUploader : AudienceUploadManager and its progress file            *)
(*                  (src/audience_uploader.py)                             *)
(*   SpecFetch    : SnowflakeAudienceConnector.get_batch_audience_maids    *)
(*                  (src/snowflake_connector.py)                           *)
(*   SpecRechunk  : the slicing loops of upload_app_audience_optimized and *)
(*                  add_users_to_audience_batch                            *)
(*   SpecRequest  : _make_request of MetaAPIClient / OptimizedMetaAPIClient *)
(*                  under @sleep_and_retry @limits                         *)
(*   SpecTransfer : the group-transfer routines upload_app_audience_       *)
(*                  optimized, upload_app_safely, process_large_app,       *)
(*                  upload_single_app_audience, upload_audience_with_maids *)
(***************************************************************************)
EXTENDS Integers, Sequences, FiniteSets, TLC

(***************************************************************************)
(* Bounds of the model                                                     *)
(***************************************************************************)
\* number of distinct audience names
MaxNames == 3
\* longest audience list handed to upload_audiences_batch
MaxListLen == 3
\* number of processes run one after the other on the same progress file
MaxRuns == 2
\* the store holds 0..MaxCountSteps times CountStep identifiers for an app
MaxCountSteps == 12
CountStep == 2500000
\* target batch sizes are 1..MaxBatchSteps times BatchStep
MaxBatchSteps == 6
BatchStep == 1000000
\* rechunking inputs: up to MaxBatches Source batches of up to MaxBatchLen
\* records, cut to target sizes 1..MaxTarget
MaxBatches == 3
MaxBatchLen == 4
MaxTarget == 3
\* number of rate-limit periods a behaviour of the Sink client spans
MaxWindows == 2
\* largest count tried with the routine that fetches batches of 500,000
MaxSmallBatchCount == 12000000
\* largest count tried with the routines that upload whatever the count
MaxUploadCount == 22500000
\* most chunks a group is cut in, the append calls whose sizes are kept, and
\* the most append calls that fail within one group
MaxTransferChunks == 450
MaxLoggedChunks == 3
MaxFailedChunks == 3
\* app names, apps in the CSV, and processes run one after the other, in the
\* main loop
MaxAppNames == 2
MaxApps == 2
\* characters of a value of a user record
MaxValueLen == 2
MaxPipelineRuns == 2
\* characters enumerated at the head of an app name, and the letters that
\* may follow them
MaxNamePrefix == 2
MaxNamePad == 190
\* largest max_retries add_users_batch_with_retry is called with
MaxRetryArgument == 3
\* longest audience list of a run that ends with a rollback
MaxRollbackListLen == 2

(***************************************************************************)
(* Variables                                                               *)
(***************************************************************************)
VARIABLES
    \* ---- AudienceUploadManager (src/audience_uploader.py) ----
    progress_file,        \* contents of upload_progress.json on disk
    completed_audiences,  \* self.completed_audiences
    upload_stats,         \* self.upload_stats
    created_audiences,    \* self.created_audiences (names, in creation order)
    audiences,            \* the list handed to upload_audiences_batch
    remaining_audiences,  \* local remaining_audiences of upload_audiences_batch
    u_idx,                \* position of the group loop in remaining_audiences
    u_pc,                 \* "init" | "ready" | "loop" | "done" | "aborted"
    u_run,                \* number of the running process, 1..MaxRuns
    sink_log,             \* Sink calls made so far, and the audiences it
                          \* created: <<run, name, call>>
    u_hist,               \* history of the runs, read only by the properties
    \* ---- SnowflakeAudienceConnector (src/snowflake_connector.py) ----
    f_pc,                 \* "start" | "done"
    f_count,              \* distinct non-NULL DEVICE_ID_VALUEs the store holds
    f_has_empty,          \* one of them is the empty string
    f_has_null,           \* the table also has a NULL DEVICE_ID_VALUE
    f_batch_size,         \* argument batch_size
    f_path,               \* "none" | "empty" | "single" | "chunked", or
                          \* "count_failed": empty as the count query raised
    f_batches,            \* the returned list of batches
    \* ---- rechunking (optimized_etl_pipeline.py, meta_api_client_optimized.py)
    rc_pc,                \* "start" | "done"
    rc_batches,           \* the Source batches (sequences of records)
    rc_target,            \* batch_size / optimized_batch_size
    rc_via,               \* "none" | "pipeline" | "client"
    rc_chunks,            \* the chunks handed to _make_request, in order
    rc_call,              \* the append call: "none" | "posting" | "raised" | "ended"
    rc_next,              \* index in rc_chunks of the next chunk to post
    rc_accepted,          \* records of the chunks the Sink answered with success
    rc_result,            \* status and maids_uploaded of the group's result
    \* ---- _make_request (meta_api_client.py, meta_api_client_optimized.py)
    q_pc,                 \* "idle" | "blocked" | "woke" | "attempt"
    q_num_calls,          \* num_calls of the @limits decorator
    q_expired,            \* the period since its last_reset has elapsed
    q_window,             \* number of the current period
    q_attempt,            \* loop variable attempt
    q_tries,              \* session.request calls made by the current call
    q_reqs_in_window,     \* requests that reached the Sink in this period
    q_last_status,        \* outcome of the last session.request
    q_last_sleep,         \* seconds of the last time.sleep of the retry loop
    q_result,             \* how the last call ended
    \* ---- group-transfer routines ----
    t_routine,            \* the routine that transfers the group
    t_pc,                 \* "start" | "uploading" | "done"
    t_maid_count,         \* identifiers the store holds for the app
    t_batch_size,         \* argument batch_size (upload_app_audience_optimized)
    t_audience_id,        \* audience_id: "none" | "existing" | "created"
    t_batches,            \* len(batch) for each batch the fetch returned
    t_b,                  \* number of the Source batch being uploaded
    t_i,                  \* offset i of the next chunk in it
    t_total_uploaded,     \* total_uploaded
    t_result,             \* the result the routine returns
    t_hist,               \* append calls made and failed, for the properties
    \* ---- main loop of optimized_etl_pipeline.py ----
    m_pc,                 \* "loop" | "done" | "crashed" | "interrupted"
    m_run,                \* number of the running process
    m_apps,               \* apps: the names read from the CSV, in file order
    m_count,              \* identifiers the store holds for each name
    m_i,                  \* loop variable i: number of the app in process
    m_results,            \* results
    m_progress,           \* contents of the etl_progress file on disk
    m_sink,               \* audiences the Sink holds under each name
    m_foreign,            \* other audiences the ad account holds
    m_log,                \* numbers of the apps Sink calls were made for
    \* ---- payload of the append operations of the Sink clients ----
    p_pc,                 \* "start" | "done"
    p_method,             \* the append operation called
    p_schema,             \* argument schema
    p_user,               \* one element of argument users
    p_is_hashed,          \* argument is_hashed
    p_row,                \* the user's row of payload["payload"]["data"]
    \* ---- start of the entry points (main.py, batch_upload_from_csv.py,
    \* ---- optimized_etl_pipeline.py) ----
    s_pc,                 \* "start" | "validated" | "connected" | "running"
                          \* | "exited"
    s_entry,              \* the script that was started
    s_env,                \* which settings the environment holds
    s_args,               \* the command-line flags
    s_calls,              \* Source queries and Sink calls made so far
    s_exit,               \* how the process ended, "none" while it runs
    \* ---- derivation of the display name of an audience ----
    n_pc,                 \* "start" | "done"
    n_function,           \* the name-derivation function called
    n_app_name,           \* the app name, a sequence of characters
    n_os,                 \* the platform of the CSV row
    n_name,               \* the returned display name
    \* ---- create_custom_audience of the Sink clients ----
    c_pc,                 \* "start" | "attempt" | "done"
    c_client,             \* the client class the call is made on
    c_name,               \* argument name
    c_attempt,            \* loop variable attempt of _make_request
    c_outcomes,           \* what each session.request of the call met, in order
    c_created,            \* audiences the Sink created for this call
    c_result,             \* how the call ended
    \* ---- _fetch_large_dataset_chunked, pass by pass ----
    k_pc,                 \* "start" | "loop" | "returned" | "raised"
    k_rows,               \* the rows the store holds for the app
    k_total_count,        \* argument total_count
    k_batch_size,         \* argument batch_size
    k_total_fetched,      \* total_fetched
    k_batches,            \* batches
    k_returned,           \* the list the function returned
    k_hist,               \* the queries made and the rows received, for the properties
    \* ---- upload_maids_via_file ----
    v_pc,                 \* "batch" | "chunks" | "returned" | "raised"
    v_total_maids,        \* len(maids)
    v_empties,            \* records at the head of maids that have no madid
    v_batch_size,         \* argument batch_size
    v_compress,           \* argument compress
    v_batch_start,        \* loop variable batch_start
    v_chunk_num,          \* loop variable chunk_num
    v_total_chunks,       \* total_chunks of the batch in process
    v_uploaded_count,     \* uploaded_count
    v_requests,           \* the requests made so far, in order
    v_result,             \* how the call ended
    \* ---- add_users_batch_with_retry ----
    b_pc,                 \* "loop" | "done"
    b_max_retries,        \* argument max_retries
    b_attempt,            \* loop variable attempt
    b_outcomes,           \* what each pass of the loop met, in order
    b_result,             \* "none" | "success" | "failure" | "raised"
    \* ---- rollback_uploads of AudienceUploadManager ----
    rb_calls,             \* what each delete_audience call of the rollback met, in order
    rb_deleted,           \* the number rollback_uploads returned
    rb_before             \* completed set, created list and file when it was called

uploaderVars == <<progress_file, completed_audiences, upload_stats,
                  created_audiences, audiences, remaining_audiences, u_idx,
                  u_pc, u_run, sink_log, u_hist>>

fetchVars == <<f_pc, f_count, f_has_empty, f_has_null, f_batch_size, f_path,
               f_batches>>

rechunkVars == <<rc_pc, rc_batches, rc_target, rc_via, rc_chunks,
    rc_call, rc_next, rc_accepted, rc_result>>

requestVars == <<q_pc, q_num_calls, q_expired, q_window, q_attempt, q_tries,
                 q_reqs_in_window, q_last_status, q_last_sleep, q_result>>

transferVars == <<t_routine, t_pc, t_maid_count, t_batch_size, t_audience_id,
                  t_batches, t_b, t_i, t_total_uploaded, t_result, t_hist>>

pipelineVars == <<m_pc, m_run, m_apps, m_count, m_i, m_results, m_progress,
                  m_sink, m_foreign, m_log>>

payloadVars == <<p_pc, p_method, p_schema, p_user, p_is_hashed, p_row>>

startupVars == <<s_pc, s_entry, s_env, s_args, s_calls, s_exit>>

nameVars == <<n_pc, n_function, n_app_name, n_os, n_name>>

createVars == <<c_pc, c_client, c_name, c_attempt, c_outcomes, c_created,
    c_result>>

chunkedVars == <<k_pc, k_rows, k_total_count, k_batch_size, k_total_fetched, k_batches, k_returned, k_hist>>

fileUploadVars == <<v_pc, v_total_maids, v_empties, v_batch_size, v_compress,
    v_batch_start, v_chunk_num, v_total_chunks, v_uploaded_count, v_requests,
    v_result>>

resilientVars == <<b_pc, b_max_retries, b_attempt, b_outcomes, b_result>>

rollbackVars == <<rb_calls, rb_deleted, rb_before>>

vars == <<uploaderVars, fetchVars, rechunkVars, requestVars, transferVars,
          pipelineVars, payloadVars, startupVars, nameVars,
    createVars,
    chunkedVars,
    fileUploadVars,
    resilientVars,
    rollbackVars>>

\* the variables of the other sub-models, left alone by each sub-model
notUploaderVars == <<fetchVars, rechunkVars, requestVars, transferVars,
    pipelineVars, payloadVars, startupVars, nameVars,
    createVars,
    chunkedVars,
    fileUploadVars,
    resilientVars,
    rollbackVars>>
notFetchVars == <<uploaderVars, rechunkVars, requestVars, transferVars,
    pipelineVars, payloadVars, startupVars, nameVars,
    createVars,
    chunkedVars,
    fileUploadVars,
    resilientVars,
    rollbackVars>>
notRechunkVars == <<uploaderVars, fetchVars, requestVars, transferVars,
    pipelineVars, payloadVars, startupVars, nameVars,
    createVars,
    chunkedVars,
    fileUploadVars,
    resilientVars,
    rollbackVars>>
notRequestVars == <<uploaderVars, fetchVars, rechunkVars, transferVars,
    pipelineVars, payloadVars, startupVars, nameVars,
    createVars,
    chunkedVars,
    fileUploadVars,
    resilientVars,
    rollbackVars>>
notTransferVars == <<uploaderVars, fetchVars, rechunkVars, requestVars,
    pipelineVars, payloadVars, startupVars, nameVars,
    createVars,
    chunkedVars,
    fileUploadVars,
    resilientVars,
    rollbackVars>>
notPipelineVars == <<uploaderVars, fetchVars, rechunkVars, requestVars,
    payloadVars, startupVars, nameVars,
    createVars,
    chunkedVars,
    fileUploadVars,
    resilientVars,
    rollbackVars>>
notPayloadVars == <<uploaderVars, fetchVars, rechunkVars, requestVars,
    transferVars, pipelineVars, startupVars, nameVars,
    createVars,
    chunkedVars,
    fileUploadVars,
    resilientVars,
    rollbackVars>>
notStartupVars == <<uploaderVars, fetchVars, rechunkVars, requestVars,
    transferVars, pipelineVars, payloadVars, nameVars,
    createVars,
    chunkedVars,
    fileUploadVars,
    resilientVars,
    rollbackVars>>
notNameVars == <<uploaderVars, fetchVars, rechunkVars, requestVars,
    transferVars, pipelineVars, payloadVars, startupVars,
    createVars,
    chunkedVars,
    fileUploadVars,
    resilientVars,
    rollbackVars>>
notCreateVars == <<uploaderVars, fetchVars, rechunkVars, requestVars,
    transferVars, pipelineVars, payloadVars, startupVars, nameVars,
    chunkedVars,
    fileUploadVars,
    resilientVars,
    rollbackVars>>
notChunkedVars == <<uploaderVars, fetchVars, rechunkVars, requestVars,
    transferVars, pipelineVars, payloadVars, startupVars, nameVars,
    createVars,
    fileUploadVars,
    resilientVars,
    rollbackVars>>
notFileUploadVars == <<uploaderVars, fetchVars, rechunkVars, requestVars,
    transferVars, pipelineVars, payloadVars, startupVars, nameVars,
    createVars, chunkedVars,
    resilientVars,
    rollbackVars>>
notResilientVars == <<uploaderVars, fetchVars, rechunkVars, requestVars,
    transferVars, pipelineVars, payloadVars, startupVars, nameVars,
    createVars, chunkedVars, fileUploadVars,
    rollbackVars>>
notRollbackVars == <<uploaderVars, fetchVars, rechunkVars, requestVars,
    transferVars, pipelineVars, payloadVars, startupVars, nameVars,
    createVars, chunkedVars, fileUploadVars, resilientVars>>

(***************************************************************************)
(* Idle values: what a sub-model's variables hold while another one runs   *)
(***************************************************************************)
UploaderIdle ==
    /\ progress_file = [kind |-> "missing", completed |-> {}, errors |-> <<>>]
    /\ completed_audiences = {}
    /\ upload_stats = <<>>
    /\ created_audiences = <<>>
    /\ audiences = <<>>
    /\ remaining_audiences = <<>>
    /\ u_idx = 1
    /\ u_pc = "idle"
    /\ u_run = 1
    /\ sink_log = {}
    /\ u_hist = <<>>

FetchIdle ==
    /\ f_pc = "idle"
    /\ f_count = 0
    /\ f_has_empty = FALSE
    /\ f_has_null = FALSE
    /\ f_batch_size = 1
    /\ f_path = "none"
    /\ f_batches = <<>>

\* the result of a group before its append call: no status, and no
\* maids_uploaded key, which the summary reads as 0
NoAppendResult == [status |-> "none", maids_uploaded |-> 0]

RechunkIdle ==
    /\ rc_pc = "idle"
    /\ rc_batches = <<>>
    /\ rc_target = 1
    /\ rc_via = "none"
    /\ rc_chunks = <<>>
    /\ rc_call = "none"
    /\ rc_next = 1
    /\ rc_accepted = 0
    /\ rc_result = NoAppendResult

RequestIdle ==
    /\ q_pc = "off"
    /\ q_num_calls = 0
    /\ q_expired = FALSE
    /\ q_window = 1
    /\ q_attempt = 0
    /\ q_tries = 0
    /\ q_reqs_in_window = 0
    /\ q_last_status = "none"
    /\ q_last_sleep = 0
    /\ q_result = "none"

TransferIdle ==
    /\ t_routine = "none"
    /\ t_pc = "idle"
    /\ t_maid_count = 0
    /\ t_batch_size = 1
    /\ t_audience_id = "none"
    /\ t_batches = <<>>
    /\ t_b = 1
    /\ t_i = 0
    /\ t_total_uploaded = 0
    /\ t_result = <<>>
    /\ t_hist = <<>>

PipelineIdle ==
    /\ m_pc = "idle"
    /\ m_run = 1
    /\ m_apps = <<>>
    /\ m_count = <<>>
    /\ m_i = 1
    /\ m_results = <<>>
    /\ m_progress = <<>>
    /\ m_sink = <<>>
    /\ m_foreign = 0
    /\ m_log = <<>>

PayloadIdle ==
    /\ p_pc = "idle"
    /\ p_method = "none"
    /\ p_schema = <<>>
    /\ p_user = <<>>
    /\ p_is_hashed = FALSE
    /\ p_row = <<>>

StartupIdle ==
    /\ s_pc = "idle"
    /\ s_entry = "none"
    /\ s_env = <<>>
    /\ s_args = <<>>
    /\ s_calls = <<>>
    /\ s_exit = "none"

NameIdle ==
    /\ n_pc = "idle"
    /\ n_function = "none"
    /\ n_app_name = <<>>
    /\ n_os = "none"
    /\ n_name = <<>>

CreateIdle ==
    /\ c_pc = "idle"
    /\ c_client = "none"
    /\ c_name = 0
    /\ c_attempt = 0
    /\ c_outcomes = <<>>
    /\ c_created = 0
    /\ c_result = "none"

ChunkedIdle ==
    /\ k_pc = "idle"
    /\ k_rows = <<>>
    /\ k_total_count = 0
    /\ k_batch_size = 1
    /\ k_total_fetched = 0
    /\ k_batches = <<>>
    /\ k_returned = <<>>
    /\ k_hist = <<>>

FileUploadIdle ==
    /\ v_pc = "idle"
    /\ v_total_maids = 0
    /\ v_empties = 0
    /\ v_batch_size = 1
    /\ v_compress = FALSE
    /\ v_batch_start = 0
    /\ v_chunk_num = 0
    /\ v_total_chunks = 0
    /\ v_uploaded_count = 0
    /\ v_requests = <<>>
    /\ v_result = "none"

ResilientIdle ==
    /\ b_pc = "idle"
    /\ b_max_retries = 0
    /\ b_attempt = 0
    /\ b_outcomes = <<>>
    /\ b_result = "none"

RollbackIdle ==
    /\ rb_calls = <<>>
    /\ rb_deleted = 0
    /\ rb_before = <<>>

(***************************************************************************)
(* Helpers                                                                 *)
(***************************************************************************)
AudienceNames == 1..MaxNames

SeqsUpTo(S, n) == UNION {[1..k -> S] : k \in 0..n}

Range(s) == {s[i] : i \in 1..Len(s)}

(***************************************************************************)
(* AudienceUploadManager                                                   *)
(***************************************************************************)
\* The progress file: absent, unparsable, or a JSON object with the
\* 'completed' list and the 'stats' (of which the errors are kept).
MissingFile == [kind |-> "missing", completed |-> {}, errors |-> <<>>]
CorruptFile == [kind |-> "corrupt", completed |-> {}, errors |-> <<>>]
ValidFile(completed, errors) ==
    [kind |-> "valid", completed |-> completed, errors |-> errors]

\* self.upload_stats as __init__ builds it
InitialStats ==
    [total_audiences |-> 0, successful_uploads |-> 0, failed_uploads |-> 0,
     start_time |-> "None", end_time |-> "None", errors |-> <<>>]

\* load_progress: the completed set of a readable file, else the empty set
load_progress(file) ==
    IF file.kind = "valid" THEN file.completed ELSE {}

\* json.dump cannot serialise a datetime: a stats dict whose start_time or
\* end_time has been set makes it raise TypeError in the middle of the write
JsonSerializable(stats) ==
    stats.start_time = "None" /\ stats.end_time = "None"

\* save_progress: what the file holds afterwards.  io is what the file
\* system does: "ok", "open_fails" (the file is left as it was) or
\* "write_fails" (the file was truncated by open(..., 'w')).
save_progress(file, completed, stats, io) ==
    IF io = "open_fails" THEN file
    ELSE IF io = "write_fails" THEN CorruptFile
    ELSE IF ~JsonSerializable(stats) THEN CorruptFile
    ELSE ValidFile(completed, stats.errors)

\* whether save_progress lets an exception out: its body is wrapped in
\* try / except Exception, which only logs
save_progress_uncaught(stats, io) == io # "ok" \/ ~JsonSerializable(stats)
save_progress_propagates(stats, io) == FALSE

IOOutcomes == {"ok", "open_fails", "write_fails"}

InitialHist ==
    [loaded_from  |-> "none",   \* kind of file load_progress met in this run
     done_run1    |-> {},       \* names run 1 completed and saved
     io_fault     |-> FALSE,    \* the file system failed a save_progress
     save_failed  |-> FALSE,    \* a save_progress of this run failed
     after_fail   |-> FALSE,    \* a group was processed after a failed save
     succeeded    |-> {},       \* names this run finished with success
     failed       |-> {},       \* names this run finished with failure
     attempted    |-> <<>>,     \* names the group loop of this run handled
     completed_at_start |-> {}, \* completed_audiences when the loop began
     calls        |-> <<>>]     \* Sink calls of this run: <<u_idx, call>>

UploaderInit ==
    /\ progress_file \in {MissingFile, CorruptFile}
                          \cup {ValidFile(c, <<>>) : c \in SUBSET AudienceNames}
    /\ audiences \in SeqsUpTo(AudienceNames, MaxListLen)
    /\ completed_audiences = {}
    /\ upload_stats = InitialStats
    /\ created_audiences = <<>>
    /\ remaining_audiences = <<>>
    /\ u_idx = 1
    /\ u_pc = "init"
    /\ u_run = 1
    /\ sink_log = {}
    /\ u_hist = InitialHist
    /\ FetchIdle
    /\ RechunkIdle
    /\ RequestIdle
    /\ TransferIdle
    /\ PipelineIdle
    /\ PayloadIdle
    /\ StartupIdle
    /\ NameIdle
    /\ CreateIdle
    /\ ChunkedIdle
    /\ FileUploadIdle
    /\ ResilientIdle
    /\ RollbackIdle

\* AudienceUploadManager.__init__
Construct ==
    /\ u_pc = "init"
    /\ completed_audiences' = load_progress(progress_file)
    /\ upload_stats' = InitialStats
    /\ created_audiences' = <<>>
    /\ u_pc' = "ready"
    /\ u_hist' = [u_hist EXCEPT !.loaded_from = progress_file.kind]
    /\ UNCHANGED notUploaderVars
    /\ UNCHANGED <<progress_file, audiences, remaining_audiences, u_idx,
                   u_run, sink_log>>

\* [a for a in audiences if a['name'] not in self.completed_audiences]
RemainingAudiencesReversed(list, completed) ==
    LET kept == SelectSeq(list, LAMBDA a : a \notin completed)
    IN  [k \in 1..Len(kept) |-> kept[Len(kept) + 1 - k]]
RemainingAudiences(list, completed) ==
    SelectSeq(list, LAMBDA a : a \notin completed)

\* upload_audiences_batch up to the group loop
UploadAudiencesBatchStart ==
    /\ u_pc = "ready"
    /\ upload_stats' = [upload_stats EXCEPT
                           !.total_audiences = Len(audiences),
                           !.start_time = "datetime"]
    /\ remaining_audiences' =
           RemainingAudiences(audiences, completed_audiences)
    /\ u_idx' = 1
    /\ u_pc' = "loop"
    /\ u_hist' = [u_hist EXCEPT !.completed_at_start = completed_audiences]
    /\ UNCHANGED notUploaderVars
    /\ UNCHANGED <<progress_file, completed_audiences, created_audiences,
                   audiences, u_run, sink_log>>

\* One pass of the group loop of upload_audiences_batch: upload_single_audience
\* for remaining_audiences[u_idx] and the bookkeeping after it.  create_ok and
\* add_ok are what the Sink answers, sends_users whether with_users is set and
\* the audience has users, io what the file system does to save_progress.
UploadSingleAudience ==
    /\ u_pc = "loop"
    /\ u_idx <= Len(remaining_audiences)
    /\ \E create_ok \in BOOLEAN, sends_users \in BOOLEAN, add_ok \in BOOLEAN,
          io \in IOOutcomes :
         LET name     == remaining_audiences[u_idx]
             skip     == name \in completed_audiences
             creates  == ~skip
             adds     == creates /\ create_ok /\ sends_users
             marks    == creates /\ create_ok /\ (adds => add_ok)
             raised   == marks /\ save_progress_propagates(upload_stats, io)
             success  == skip \/ (marks /\ ~raised)
             newfile  == IF marks
                         THEN save_progress(progress_file,
                                            completed_audiences \cup {name},
                                            upload_stats, io)
                         ELSE progress_file
             saved    == newfile.kind = "valid" /\ name \in newfile.completed
         IN  /\ sink_log' = sink_log
                   \cup (IF creates THEN {<<u_run, name, "create">>} ELSE {})
                   \cup (IF creates /\ create_ok
                         THEN {<<u_run, name, "created">>} ELSE {})
                   \cup (IF adds THEN {<<u_run, name, "add_users">>} ELSE {})
             /\ created_audiences' =
                   IF creates /\ create_ok
                   THEN Append(created_audiences, name)
                   ELSE created_audiences
             /\ completed_audiences' =
                   IF marks THEN completed_audiences \cup {name}
                   ELSE completed_audiences
             /\ progress_file' = newfile
             /\ upload_stats' =
                   IF success
                   THEN [upload_stats EXCEPT !.successful_uploads = @ + 1]
                   ELSE [upload_stats EXCEPT !.failed_uploads = @ + 1,
                                             !.errors = Append(@, name)]
             /\ u_hist' = [u_hist EXCEPT
                   !.done_run1 = IF u_run = 1 /\ marks THEN @ \cup {name} ELSE @,
                   !.io_fault = @ \/ (marks /\ io # "ok"),
                   !.save_failed = @ \/ (marks /\ ~saved),
                   !.after_fail = @ \/ u_hist.save_failed,
                   !.succeeded = IF success /\ ~skip THEN @ \cup {name} ELSE @,
                   !.failed = IF ~success THEN @ \cup {name} ELSE @,
                   !.attempted = Append(@, name),
                   !.calls = @ \o (IF creates THEN <<<<u_idx, "create">>>>
                                               ELSE <<>>)
                               \o (IF adds THEN <<<<u_idx, "add_users">>>>
                                            ELSE <<>>)]
    /\ u_idx' = u_idx + 1
    /\ UNCHANGED notUploaderVars
    /\ UNCHANGED <<audiences, remaining_audiences, u_pc, u_run>>

\* upload_audiences_batch after the group loop: end_time and the last save
UploadAudiencesBatchFinish ==
    /\ u_pc = "loop"
    /\ u_idx > Len(remaining_audiences)
    /\ \E io \in IOOutcomes :
         LET stats == [upload_stats EXCEPT !.end_time = "datetime"]
             newfile == save_progress(progress_file, completed_audiences,
                                      stats, io)
         IN  /\ upload_stats' = stats
             /\ progress_file' = newfile
             /\ u_pc' = IF save_progress_propagates(stats, io)
                        THEN "aborted" ELSE "done"
             /\ u_hist' = [u_hist EXCEPT
                   !.io_fault = @ \/ (io # "ok"),
                   !.save_failed = @ \/ (newfile.kind # "valid")]
    /\ UNCHANGED notUploaderVars
    /\ UNCHANGED <<completed_audiences, created_audiences, audiences,
                   remaining_audiences, u_idx, u_run, sink_log>>

\* The process ends (normally, or killed between two groups) and the operator
\* starts it again on the same audience list and the same progress file.
Restart ==
    /\ u_pc \in {"ready", "loop", "done", "aborted"}
    /\ u_run < MaxRuns
    /\ u_run' = u_run + 1
    /\ u_pc' = "init"
    /\ completed_audiences' = {}
    /\ upload_stats' = InitialStats
    /\ created_audiences' = <<>>
    /\ remaining_audiences' = <<>>
    /\ u_idx' = 1
    /\ u_hist' = [InitialHist EXCEPT !.done_run1 = u_hist.done_run1,
                                     !.io_fault = u_hist.io_fault]
    /\ UNCHANGED notUploaderVars
    /\ UNCHANGED <<progress_file, audiences, sink_log>>

UploaderNext ==
    \/ Construct
    \/ UploadAudiencesBatchStart
    \/ UploadSingleAudience
    \/ UploadAudiencesBatchFinish
    \/ Restart

SpecUploader == UploaderInit /\ [][UploaderNext]_vars

(***************************************************************************)
(* Claims about the progress file                                          *)
(***************************************************************************)
\* C1: Idempotent skip.  When the file system never failed a save, a later
\* run makes no create_custom_audience and no add_users_to_audience call for
\* a group that run 1 completed (added to completed_audiences and saved).
C1_IdempotentSkip ==
    ~u_hist.io_fault =>
        \A e \in sink_log : e[1] > 1 => e[2] \notin u_hist.done_run1

\* C2: The checkpoint is written before the next group starts.  Whenever the
\* group loop stands between two groups (or after the last one) and the file
\* system never failed, the progress file holds the outcome of every group
\* this run has finished: the successes in 'completed', the failures in the
\* saved errors.
C2_CheckpointBeforeNextGroup ==
    (u_pc = "loop" /\ ~u_hist.io_fault) =>
        /\ \A g \in u_hist.succeeded :
               progress_file.kind = "valid" /\ g \in progress_file.completed
        /\ \A g \in u_hist.failed : g \in Range(progress_file.errors)

\* C3: A failure to read or write the progress file never aborts the run.
\* load_progress yields the empty set for a missing or unparsable file, no
\* save_progress failure leaves the group loop, and a run that ends has
\* handled every remaining group.
C3_CheckpointFailureNeverAborts ==
    /\ u_pc # "aborted"
    /\ (u_pc = "ready" /\ u_hist.loaded_from \in {"missing", "corrupt"})
           => completed_audiences = {}
    /\ u_pc = "done" => u_hist.attempted = remaining_audiences

\* C3 witness: a run that met an unparsable file, had a save_progress fail,
\* handled a further group after that and ended normally.
C3_Witness ==
    /\ u_pc = "done"
    /\ u_hist.loaded_from = "corrupt"
    /\ u_hist.after_fail
    /\ Len(u_hist.attempted) >= 2

(***************************************************************************)
(* SnowflakeAudienceConnector.get_batch_audience_maids                     *)
(*                                                                         *)
(* Row numbers stand for the rows of the DISTINCT result in the order the  *)
(* store returns them.  A result set is kept as a sequence of runs of      *)
(* consecutive rows, [lo, hi, ok], ok telling whether the rows hold a      *)
(* truthy identifier (row[0] is neither NULL nor ''); a batch is kept as   *)
(* the sequence of row intervals <<lo, hi>> it holds, in order.  The row   *)
(* loops of the code are taken one stride at a time: the rows that are     *)
(* appended to current_batch before the next test changes its outcome.     *)
(***************************************************************************)
\* rows fetched per LIMIT/OFFSET query
chunk_size == 10000000
\* above this count the chunked path is taken
LargeDatasetThreshold == 20000000

Min(a, b) == IF a <= b THEN a ELSE b

\* SELECT DISTINCT DEVICE_ID_VALUE ... WHERE APP_NAME_PROPER = app: the
\* empty string sorts first, NULL last
StoreRows(n, has_empty, has_null) ==
    LET first == IF has_empty THEN 2 ELSE 1 IN
    (IF has_empty THEN <<[lo |-> 1, hi |-> 1, ok |-> FALSE]>> ELSE <<>>)
    \o (IF n >= first THEN <<[lo |-> first, hi |-> n, ok |-> TRUE]>> ELSE <<>>)
    \o (IF has_null THEN <<[lo |-> n + 1, hi |-> n + 1, ok |-> FALSE]>>
        ELSE <<>>)

\* SELECT COUNT(DISTINCT DEVICE_ID_VALUE): NULL is not counted.  When the
\* query raises (query_ok is FALSE) the except branch returns 0.
get_audience_count(n, has_empty, has_null, query_ok) ==
    IF query_ok THEN n ELSE 0

\* number of rows of a result set
RECURSIVE RowCount(_)
RowCount(runs) ==
    IF runs = <<>> THEN 0
    ELSE Head(runs).hi - Head(runs).lo + 1 + RowCount(Tail(runs))

\* ... ORDER BY DEVICE_ID_VALUE LIMIT limit OFFSET offset
RECURSIVE LimitOffset(_, _, _)
LimitOffset(runs, limit, offset) ==
    IF runs = <<>> THEN <<>>
    ELSE LET r  == Head(runs)
             lo == IF r.lo > offset + 1 THEN r.lo ELSE offset + 1
             hi == Min(r.hi, offset + limit)
         IN  (IF lo <= hi THEN <<[r EXCEPT !.lo = lo, !.hi = hi]>> ELSE <<>>)
             \o LimitOffset(Tail(runs), limit, offset)

\* len(batch)
RECURSIVE BatchLen(_)
BatchLen(b) ==
    IF b = <<>> THEN 0
    ELSE Head(b)[2] - Head(b)[1] + 1 + BatchLen(Tail(b))

\* current_batch.append({'madid': row[0]}) for the rows lo..hi
AppendRows(b, lo, hi) ==
    IF b # <<>> /\ b[Len(b)][2] + 1 = lo
    THEN [b EXCEPT ![Len(b)] = <<b[Len(b)][1], hi>>]
    ELSE Append(b, <<lo, hi>>)

\* for row in results: if row[0]: append; if len(current_batch) >= batch_size:
\* batches.append(current_batch); current_batch = []
RECURSIVE FillBatches(_, _, _, _)
FillBatches(runs, current_batch, batches, batch_size) ==
    IF runs = <<>>
    THEN [current_batch |-> current_batch, batches |-> batches]
    ELSE LET r == Head(runs) IN
         IF ~r.ok
         THEN FillBatches(Tail(runs), current_batch, batches, batch_size)
         ELSE LET room == batch_size - BatchLen(current_batch)
                  k    == Min(r.hi - r.lo + 1, IF room >= 1 THEN room ELSE 1)
                  cur  == AppendRows(current_batch, r.lo, r.lo + k - 1)
                  rest == IF r.lo + k > r.hi THEN Tail(runs)
                          ELSE <<[r EXCEPT !.lo = r.lo + k]>> \o Tail(runs)
              IN  IF BatchLen(cur) >= batch_size
                  THEN FillBatches(rest, <<>>, Append(batches, cur), batch_size)
                  ELSE FillBatches(rest, cur, batches, batch_size)

\* the single-query path of get_batch_audience_maids
FetchSingleQuery(rows, batch_size) ==
    LET res == FillBatches(rows, <<>>, <<>>, batch_size) IN
    IF res.current_batch # <<>>
    THEN Append(res.batches, res.current_batch)
    ELSE res.batches

\* what becomes of the rows left in current_batch at the end of a chunk:
\* TRUE if they are appended to batches.  They are never carried over:
\* current_batch is set to [] again at the start of the next chunk.
KeepsChunkRemainder(current_batch, batch_size, fetched, chunk_len, total) ==
    \/ fetched + chunk_len >= total
    \/ 10 * BatchLen(current_batch) >= 8 * batch_size

\* the while loop of _fetch_large_dataset_chunked
RECURSIVE ChunkLoop(_, _, _, _, _)
ChunkLoop(rows, total_count, batch_size, total_fetched, batches) ==
    IF ~(total_fetched < total_count) THEN batches
    ELSE LET current_chunk_size == Min(chunk_size, total_count - total_fetched)
             chunk_results == LimitOffset(rows, current_chunk_size,
                                          total_fetched)
             chunk_len == RowCount(chunk_results)
             res == FillBatches(chunk_results, <<>>, batches, batch_size)
             kept == IF res.current_batch # <<>>
                        /\ KeepsChunkRemainder(res.current_batch, batch_size,
                                               total_fetched, chunk_len,
                                               total_count)
                     THEN Append(res.batches, res.current_batch)
                     ELSE res.batches
         IN  IF chunk_len = 0 THEN batches
             ELSE ChunkLoop(rows, total_count, batch_size,
                            total_fetched + chunk_len, kept)

_fetch_large_dataset_chunked(rows, total_count, batch_size) ==
    ChunkLoop(rows, total_count, batch_size, 0, <<>>)

\* which path get_batch_audience_maids takes for a count
FetchPath(total_count) ==
    IF total_count = 0 THEN "empty"
    ELSE IF total_count > LargeDatasetThreshold THEN "chunked"
    ELSE "single"

get_batch_audience_maids(n, has_empty, has_null, batch_size, count_ok) ==
    LET total_count == get_audience_count(n, has_empty, has_null, count_ok)
        rows == StoreRows(n, has_empty, has_null)
    IN  IF FetchPath(total_count) = "empty" THEN <<>>
        ELSE IF FetchPath(total_count) = "chunked"
        THEN _fetch_large_dataset_chunked(rows, total_count, batch_size)
        ELSE FetchSingleQuery(rows, batch_size)

FetchInit ==
    /\ f_pc = "start"
    /\ f_count \in {k * CountStep : k \in 0..MaxCountSteps}
    /\ f_has_empty \in {e \in BOOLEAN : e => f_count >= 1}
    /\ f_has_null \in BOOLEAN
    /\ f_batch_size \in {k * BatchStep : k \in 1..MaxBatchSteps}
    /\ f_path = "none"
    /\ f_batches = <<>>
    /\ UploaderIdle
    /\ RechunkIdle
    /\ RequestIdle
    /\ TransferIdle
    /\ PipelineIdle
    /\ PayloadIdle
    /\ StartupIdle
    /\ NameIdle
    /\ CreateIdle
    /\ ChunkedIdle
    /\ FileUploadIdle
    /\ ResilientIdle
    /\ RollbackIdle

GetBatchAudienceMaids ==
    /\ f_pc = "start"
    /\ \E count_ok \in BOOLEAN :
         /\ f_batches' = get_batch_audience_maids(f_count, f_has_empty,
                              f_has_null, f_batch_size, count_ok)
         /\ f_path' = IF count_ok
                      THEN FetchPath(get_audience_count(f_count, f_has_empty,
                                                        f_has_null, TRUE))
                      ELSE "count_failed"
    /\ f_pc' = "done"
    /\ UNCHANGED <<f_count, f_has_empty, f_has_null, f_batch_size>>
    /\ UNCHANGED notFetchVars

FetchNext == GetBatchAudienceMaids

SpecFetch == FetchInit /\ [][FetchNext]_vars

(***************************************************************************)
(* Claims about the Record Source                                          *)
(***************************************************************************)
\* the row intervals of all the batches, in order
RECURSIVE Flatten(_)
Flatten(bs) == IF bs = <<>> THEN <<>> ELSE Head(bs) \o Flatten(Tail(bs))

\* number of truthy rows the store returns for the app
TruthyRows(n, has_empty) == IF has_empty THEN n - 1 ELSE n

\* every truthy row of the store is in exactly one batch: the intervals of
\* the batches hold truthy rows only, are pairwise disjoint and hold as many
\* rows as the store has truthy ones
ExactlyOnce(batches, n, has_empty) ==
    LET iv == Flatten(batches)
        first == IF has_empty THEN 2 ELSE 1
    IN  /\ \A i \in 1..Len(iv) : first <= iv[i][1] /\ iv[i][1] <= iv[i][2]
                                 /\ iv[i][2] <= n
        /\ \A i, j \in 1..Len(iv) :
               i < j => (iv[i][2] < iv[j][1] \/ iv[j][2] < iv[i][1])
        /\ BatchLen(iv) = TruthyRows(n, has_empty)

\* C4: get_batch_audience_maids returns batches no larger than the target
\* size, and every non-null identifier row of the store is in exactly one of
\* them, on the single-query path and on the chunked path alike (the count
\* query having answered).
C4_FetchPartitionsRows ==
    (f_pc = "done" /\ f_path # "count_failed") =>
        /\ \A i \in 1..Len(f_batches) : BatchLen(f_batches[i]) <= f_batch_size
        /\ ExactlyOnce(f_batches, f_count, f_has_empty)

(***************************************************************************)
(* Rechunking: upload_app_audience_optimized cuts each Source batch into   *)
(* meta_batch slices, and add_users_to_audience_batch cuts the users it is *)
(* given into the batches it posts.                                        *)
(***************************************************************************)
\* How _make_request ends for the request of an append call: the parsed
\* answer, None when the last attempt was answered 429, or the exception of
\* the last attempt.  The append operations of the clients do not look at
\* what it returns.
MakeRequestResults == {"json", "None", "raised"}

append_returns(request) == request # "raised"

\* Python's s[i:i + size] for 0 <= i
SliceOffByOne(s, i, size) == SubSeq(s, i + 1, Min(i + size - 1, Len(s)))
Slice(s, i, size) == SubSeq(s, i + 1, Min(i + size, Len(s)))

\* for i in range(i0, len(s), size): yield s[i:i + size]
RECURSIVE SliceLoop(_, _, _)
SliceLoop(s, i, size) ==
    IF i >= Len(s) THEN <<>>
    ELSE <<Slice(s, i, size)>> \o SliceLoop(s, i + size, size)

\* the batches add_users_to_audience_batch posts for its users argument
add_users_to_audience_batch(users, optimized_batch_size) ==
    SliceLoop(users, 0, optimized_batch_size)

\* the batches posted for a list of meta_batch slices, one call each
RECURSIVE PostAll(_, _)
PostAll(meta_batches, batch_size) ==
    IF meta_batches = <<>> THEN <<>>
    ELSE add_users_to_audience_batch(Head(meta_batches), batch_size)
         \o PostAll(Tail(meta_batches), batch_size)

\* the two nested loops of upload_app_audience_optimized over batches
RECURSIVE UploadLoops(_, _)
UploadLoops(batches, batch_size) ==
    IF batches = <<>> THEN <<>>
    ELSE PostAll(SliceLoop(Head(batches), 0, batch_size), batch_size)
         \o UploadLoops(Tail(batches), batch_size)

\* Source batches of the given sizes, holding the records 1, 2, 3, ...
RECURSIVE NumberedBatches(_, _)
NumberedBatches(sizes, from) ==
    IF sizes = <<>> THEN <<>>
    ELSE <<[i \in 1..Head(sizes) |-> from + i - 1]>>
         \o NumberedBatches(Tail(sizes), from + Head(sizes))

RechunkInit ==
    /\ rc_pc = "start"
    /\ rc_batches \in {NumberedBatches(sizes, 1) :
                         sizes \in SeqsUpTo(0..MaxBatchLen, MaxBatches)}
    /\ rc_target \in 1..MaxTarget
    /\ rc_via = "none"
    /\ rc_chunks = <<>>
    /\ rc_call = "none"
    /\ rc_next = 1
    /\ rc_accepted = 0
    /\ rc_result = NoAppendResult
    /\ UploaderIdle
    /\ FetchIdle
    /\ RequestIdle
    /\ TransferIdle
    /\ PipelineIdle
    /\ PayloadIdle
    /\ StartupIdle
    /\ NameIdle
    /\ CreateIdle
    /\ ChunkedIdle
    /\ FileUploadIdle
    /\ ResilientIdle
    /\ RollbackIdle

\* upload_app_audience_optimized from the first Source batch to the last
RechunkInPipeline ==
    /\ rc_pc = "start"
    /\ rc_chunks' = UploadLoops(rc_batches, rc_target)
    /\ rc_via' = "pipeline"
    /\ rc_pc' = "done"
    /\ UNCHANGED <<rc_batches, rc_target, rc_call, rc_next, rc_accepted,
                   rc_result>>
    /\ UNCHANGED notRechunkVars

\* add_users_to_audience_batch called with one whole Source batch as users
RechunkInClient ==
    /\ rc_pc = "start"
    /\ Len(rc_batches) = 1
    /\ rc_chunks' = add_users_to_audience_batch(rc_batches[1], rc_target)
    /\ rc_via' = "client"
    /\ rc_pc' = "done"
    /\ UNCHANGED <<rc_batches, rc_target, rc_call, rc_next, rc_accepted,
                   rc_result>>
    /\ UNCHANGED notRechunkVars

\* One turn of the loop of add_users_to_audience_batch, called by
\* upload_app_with_optimized_method with all the records of the group: the
\* next batch is posted, and the exception of _make_request leaves the call.
PostBatch ==
    /\ rc_pc = "done"
    /\ rc_via = "client"
    /\ rc_call \in {"none", "posting"}
    /\ rc_next <= Len(rc_chunks)
    /\ \E request \in MakeRequestResults :
         /\ rc_call' = IF append_returns(request) THEN "posting" ELSE "raised"
         /\ rc_next' = IF append_returns(request) THEN rc_next + 1 ELSE rc_next
         /\ rc_accepted' = IF request = "json"
                               THEN rc_accepted + Len(rc_chunks[rc_next])
                               ELSE rc_accepted
    /\ UNCHANGED <<rc_pc, rc_batches, rc_target, rc_via, rc_chunks, rc_result>>
    /\ UNCHANGED notRechunkVars

\* what upload_app_with_optimized_method records when the call has returned
\* {"users_uploaded": total_users, ...}
RecordedAfterReturn(total_users) ==
    IF total_users # 0
    THEN [status |-> "success", maids_uploaded |-> total_users]
    ELSE [status |-> "uncertain", maids_uploaded |-> 0]

\* what its except branch records when the call has raised
RecordedAfterRaise == [status |-> "error", maids_uploaded |-> 0]

\* The end of the append call in upload_app_with_optimized_method: the call
\* returns after its last batch, or its exception is caught.
EndAppend ==
    /\ rc_pc = "done"
    /\ rc_via = "client"
    /\ \/ /\ rc_call \in {"none", "posting"}
          /\ rc_next > Len(rc_chunks)
          /\ rc_result' = RecordedAfterReturn(Len(rc_batches[1]))
       \/ /\ rc_call = "raised"
          /\ rc_result' = RecordedAfterRaise
    /\ rc_call' = "ended"
    /\ UNCHANGED <<rc_pc, rc_batches, rc_target, rc_via, rc_chunks, rc_next,
                   rc_accepted>>
    /\ UNCHANGED notRechunkVars

RechunkNext ==
    \/ RechunkInPipeline
    \/ RechunkInClient
    \/ PostBatch
    \/ EndAppend

SpecRechunk == RechunkInit /\ [][RechunkNext]_vars

(***************************************************************************)
(* Claims about rechunking                                                 *)
(***************************************************************************)
RECURSIVE TotalLen(_)
TotalLen(bs) == IF bs = <<>> THEN 0 ELSE Len(Head(bs)) + TotalLen(Tail(bs))

\* C5: Rechunking preserves records.  Every chunk holds at most target-size
\* records, the chunks hold as many records as the Source batches, and the
\* records come in the order they have in their Source batch.
C5_RechunkPreservesRecords ==
    rc_pc = "done" =>
        /\ \A i \in 1..Len(rc_chunks) : Len(rc_chunks[i]) <= rc_target
        /\ TotalLen(rc_chunks) = TotalLen(rc_batches)
        /\ Flatten(rc_chunks) = Flatten(rc_batches)

\* C5 witness: Source batches of different sizes, one of them larger than
\* the target and not a multiple of it, have been cut by the pipeline.
C5_Witness ==
    /\ rc_pc = "done"
    /\ rc_via = "pipeline"
    /\ Len(rc_batches) >= 2
    /\ \E i, j \in 1..Len(rc_batches) :
          /\ Len(rc_batches[i]) # Len(rc_batches[j])
          /\ Len(rc_batches[i]) > rc_target
          /\ Len(rc_batches[i]) % rc_target # 0
    /\ Len(rc_chunks) >= 3

(***************************************************************************)
(* _make_request: the retry loop of MetaAPIClient and                      *)
(* OptimizedMetaAPIClient (the two are the same here) under the decorators *)
(* @sleep_and_retry @limits(calls=API_CALLS_PER_HOUR, period=3600).        *)
(*                                                                         *)
(* Time is kept as far as the decorator reads it: q_expired tells whether  *)
(* the period that began at its last reset has elapsed.                    *)
(***************************************************************************)
API_CALLS_PER_HOUR == 200
MAX_RETRIES == 3
RETRY_DELAY == 5

\* Retry-After header of a 429 response: absent (0) or a number of seconds
RetryAfterHeaders == {0, 60}

\* int(response.headers.get('Retry-After', Config.RETRY_DELAY))
retry_after(header) == IF header = 0 THEN RETRY_DELAY ELSE header

\* time.sleep(Config.RETRY_DELAY * (attempt + 1))
RetryDelayFlat(attempt) == RETRY_DELAY
RetryDelay(attempt) == RETRY_DELAY * (attempt + 1)

\* outcomes of session.request followed by raise_for_status: a 2xx response,
\* a 429, another 4xx/5xx response (HTTPError), no response (ConnectionError)
RequestOutcomes == {"ok", "429", "http_error", "conn_error"}
RequestFailures == {"http_error", "conn_error"}

RequestInit ==
    /\ q_pc = "idle"
    /\ q_num_calls = 0
    /\ q_expired = FALSE
    /\ q_window = 1
    /\ q_attempt = 0
    /\ q_tries = 0
    /\ q_reqs_in_window = 0
    /\ q_last_status = "none"
    /\ q_last_sleep = 0
    /\ q_result = "none"
    /\ UploaderIdle
    /\ FetchIdle
    /\ RechunkIdle
    /\ TransferIdle
    /\ PipelineIdle
    /\ PayloadIdle
    /\ StartupIdle
    /\ NameIdle
    /\ CreateIdle
    /\ ChunkedIdle
    /\ FileUploadIdle
    /\ ResilientIdle
    /\ RollbackIdle

\* A call of _make_request reaches the wrapper of @limits, for the first
\* time or again after sleep_and_retry slept: the counter is reset if the
\* period has elapsed, then incremented; past the ceiling the wrapper raises
\* RateLimitException, which sleep_and_retry catches, else the body starts.
EnterLimiter ==
    /\ q_pc \in {"idle", "woke"}
    /\ LET n == (IF q_expired THEN 0 ELSE q_num_calls) + 1 IN
       /\ q_num_calls' = n
       /\ q_pc' = IF n > API_CALLS_PER_HOUR THEN "blocked" ELSE "attempt"
    /\ q_expired' = FALSE
    /\ q_window' = IF q_expired THEN q_window + 1 ELSE q_window
    /\ q_reqs_in_window' = IF q_expired THEN 0 ELSE q_reqs_in_window
    /\ q_attempt' = 0
    /\ q_tries' = 0
    /\ q_last_status' = "none"
    /\ q_last_sleep' = 0
    /\ q_result' = "pending"
    /\ UNCHANGED notRequestVars

\* sleep_and_retry: time.sleep(exception.period_remaining)
RateLimitSleep ==
    /\ q_pc = "blocked"
    /\ q_window < MaxWindows
    /\ q_expired' = TRUE
    /\ q_pc' = "woke"
    /\ UNCHANGED <<q_num_calls, q_window, q_attempt, q_tries,
                   q_reqs_in_window, q_last_status, q_last_sleep, q_result>>
    /\ UNCHANGED notRequestVars

\* One pass of the retry loop: session.request and what follows it.
SendRequest ==
    /\ q_pc = "attempt"
    /\ \E outcome \in RequestOutcomes, header \in RetryAfterHeaders :
         /\ outcome # "429" => header = 0
         /\ q_tries' = q_tries + 1
         /\ q_last_status' = outcome
         /\ q_reqs_in_window' =
               IF outcome # "conn_error" /\ ~q_expired
               THEN q_reqs_in_window + 1 ELSE q_reqs_in_window
         /\ CASE outcome = "ok" ->
                   /\ q_result' = "json"
                   /\ q_pc' = "idle"
                   /\ UNCHANGED <<q_attempt, q_last_sleep>>
              [] outcome = "429" ->
                   /\ q_last_sleep' = retry_after(header)
                   /\ q_attempt' = q_attempt + 1
                   /\ IF q_attempt + 1 < MAX_RETRIES
                      THEN q_pc' = "attempt" /\ UNCHANGED q_result
                      ELSE q_pc' = "idle" /\ q_result' = "None"
              [] outcome \in RequestFailures ->
                   IF q_attempt < MAX_RETRIES - 1
                   THEN /\ q_last_sleep' = RetryDelay(q_attempt)
                        /\ q_attempt' = q_attempt + 1
                        /\ q_pc' = "attempt"
                        /\ UNCHANGED q_result
                   ELSE /\ q_result' = "raised"
                        /\ q_pc' = "idle"
                        /\ UNCHANGED <<q_attempt, q_last_sleep>>
    /\ UNCHANGED <<q_num_calls, q_expired, q_window>>
    /\ UNCHANGED notRequestVars

\* Time passes: the rate-limit period that began at the last reset is over.
PeriodElapses ==
    /\ q_pc \in {"idle", "attempt"}
    /\ ~q_expired
    /\ q_window < MaxWindows
    /\ q_expired' = TRUE
    /\ UNCHANGED <<q_pc, q_num_calls, q_window, q_attempt, q_tries,
                   q_reqs_in_window, q_last_status, q_last_sleep, q_result>>
    /\ UNCHANGED notRequestVars

RequestNext ==
    \/ EnterLimiter
    \/ RateLimitSleep
    \/ SendRequest
    \/ PeriodElapses

SpecRequest == RequestInit /\ [][RequestNext]_vars

(***************************************************************************)
(* Claims about the Sink client                                            *)
(***************************************************************************)
\* C6: Quota respect.  A call past the ceiling is not let through before the
\* window admits it, and no more than API_CALLS_PER_HOUR requests reach the
\* Sink within one rate-limit period.
C6_QuotaRespected ==
    /\ q_pc = "attempt" => q_num_calls <= API_CALLS_PER_HOUR
    /\ q_result # "RateLimitException"
    /\ q_reqs_in_window <= API_CALLS_PER_HOUR

\* C7: Every 429 is followed by a sleep of the Retry-After value (or the
\* default delay) and by the same request being sent again: no call of
\* _make_request ends on a 429 response.
C7_RetryAfterEvery429 ==
    q_last_status = "429" =>
        /\ q_last_sleep \in {retry_after(h) : h \in RetryAfterHeaders}
        /\ q_pc = "attempt"

\* 2 to the power n
RECURSIVE Pow2(_)
Pow2(n) == IF n = 0 THEN 1 ELSE 2 * Pow2(n - 1)

Routines == {"upload_app_audience_optimized", "upload_app_safely",
             "process_large_app", "upload_single_app_audience",
             "upload_audience_with_maids"}

\* upload_remaining_apps.py
MAX_MAIDS_LIMIT == 10000000
\* process_large_app: above this count the audience is created, not filled
TooLargeForApi == 30000000
\* meta_batch_size of upload_app_safely and process_large_app
meta_batch_size == 50000

\* the routines that look for an existing audience of the same name first
ChecksExisting(routine) ==
    routine \in {"upload_app_audience_optimized", "process_large_app"}

\* the routines that ask the store for the count before creating
ChecksCount(routine) == routine # "upload_audience_with_maids"

\* batch_size handed to get_batch_audience_maids
SnowflakeBatchSize(routine, maid_count) ==
    CASE routine \in {"upload_app_audience_optimized", "upload_app_safely"} ->
            IF maid_count > 5000000 THEN 2000000
            ELSE IF maid_count > 1000000 THEN 1000000
            ELSE 500000
      [] routine = "process_large_app" -> 1000000
      [] routine = "upload_single_app_audience" -> 500000
      [] routine = "upload_audience_with_maids" -> 5000000

\* size of the chunks one append call is given, for a batch of batch_len
ChunkSizeWholeBatch(routine, batch_size, batch_len) == batch_len
ChunkSize(routine, batch_size, batch_len) ==
    CASE routine = "upload_app_audience_optimized" -> batch_size
      [] routine \in {"upload_app_safely", "process_large_app"} ->
            meta_batch_size
      [] OTHER -> batch_len

\* whether the append call stands in a try / except of its own inside the
\* chunk loop (except Exception: ... continue)
CatchesFailedAppend(routine) ==
    routine \in {"upload_app_audience_optimized", "upload_app_safely",
                 "process_large_app"}

\* What one run of a routine meets, drawn by the environment:
\*   skip_existing   argument skip_existing / skip_if_exists
\*   dry_run         argument dry_run of upload_single_app_audience
\*   list_ok         list_custom_audiences returns rather than raises
\*   exists          the Sink has an audience of the group's name
\*   listed          that audience is among those the list call returns
\*   count_ok        the count query of the routine answers
\*   create_ok       create_custom_audience returns an id rather than raises
\*   fetch_count_ok  the count query inside get_batch_audience_maids answers
\*   fetch_ok        get_batch_audience_maids returns rather than raises
GroupInputs ==
    {x \in [skip_existing : BOOLEAN, dry_run : BOOLEAN, list_ok : BOOLEAN,
            exists : BOOLEAN, listed : BOOLEAN, count_ok : BOOLEAN,
            create_ok : BOOLEAN, fetch_count_ok : BOOLEAN,
            fetch_ok : BOOLEAN] : x.listed => x.exists}

\* maid_count as the routine sees it
SeenCount(x, maid_count) ==
    get_audience_count(maid_count, FALSE, FALSE, x.count_ok)

TransferCounts == {0, 3, 120000, 1200000, 12000000, 22500000, 32500000}
TransferBatchSizes == {2, 50000, 100000}

\* the counts a routine is tried with
RoutineCounts(routine) ==
    CASE routine = "upload_single_app_audience" ->
            {n \in TransferCounts : n <= MaxSmallBatchCount}
      [] routine = "process_large_app" -> TransferCounts
      [] OTHER -> {n \in TransferCounts : n <= MaxUploadCount}

\* the <<count, batch_size>> the routines call get_batch_audience_maids with
FetchCases ==
    UNION {{<<n, SnowflakeBatchSize(routine, n)>> : n \in RoutineCounts(routine)} :
           routine \in Routines}

\* len(batch) for the batches get_batch_audience_maids returns in each of
\* these cases, computed once
FetchedLensOf ==
    [c \in FetchCases |->
        LET bs == get_batch_audience_maids(c[1], FALSE, FALSE, c[2], TRUE)
        IN  [k \in 1..Len(bs) |-> BatchLen(bs[k])]]

\* len(batch) for the batches get_batch_audience_maids returns
FetchedBatchLens(routine, x, maid_count) ==
    LET batch_size == SnowflakeBatchSize(routine, SeenCount(x, maid_count))
    IN  IF x.fetch_count_ok
        THEN FetchedLensOf[<<maid_count, batch_size>>]
        ELSE get_batch_audience_maids(maid_count, FALSE, FALSE, batch_size,
                                      FALSE)

\* status after the chunk loop
FinalStatusAlwaysSuccess(routine, total_uploaded) == "success"
FinalStatus(routine, total_uploaded) ==
    IF routine \in {"upload_single_app_audience", "upload_audience_with_maids"}
    THEN "success"
    ELSE IF total_uploaded > 0 THEN "success" ELSE "upload_failed"

\* whether the returned result carries the uploaded count
CarriesUploaded(routine, total_uploaded) ==
    CASE routine = "upload_audience_with_maids" -> TRUE
      [] routine = "upload_single_app_audience" -> FALSE
      [] OTHER -> total_uploaded > 0

\* the routine returns from its look for an existing audience
StopsAtList(routine, x) ==
    ChecksExisting(routine) /\ x.skip_existing /\ (~x.list_ok \/ x.listed)

\* the routine returns after the count, before it creates anything
StopsAtCountButNotAtZero(routine, x, maid_count) ==
    /\ ChecksCount(routine)
    /\ \/ routine = "upload_app_safely"
            /\ SeenCount(x, maid_count) > MAX_MAIDS_LIMIT
       \/ routine = "upload_single_app_audience" /\ x.dry_run
StopsAtCountIgnoringDryRun(routine, x, maid_count) ==
    /\ ChecksCount(routine)
    /\ \/ SeenCount(x, maid_count) = 0
       \/ routine = "upload_app_safely"
            /\ SeenCount(x, maid_count) > MAX_MAIDS_LIMIT
StopsAtCount(routine, x, maid_count) ==
    /\ ChecksCount(routine)
    /\ \/ SeenCount(x, maid_count) = 0
       \/ routine = "upload_app_safely"
            /\ SeenCount(x, maid_count) > MAX_MAIDS_LIMIT
       \/ routine = "upload_single_app_audience" /\ x.dry_run

\* whether create_custom_audience is called
CreateCalled(routine, x, maid_count) ==
    ~StopsAtList(routine, x) /\ ~StopsAtCount(routine, x, maid_count)

\* whether create_custom_audience was called and returned
Created(routine, x, maid_count) ==
    CreateCalled(routine, x, maid_count) /\ x.create_ok

\* whether get_batch_audience_maids is called
FetchCalled(routine, x, maid_count) ==
    /\ Created(routine, x, maid_count)
    /\ ~(routine = "process_large_app"
           /\ SeenCount(x, maid_count) > TooLargeForApi)

\* status of the result when create_custom_audience (or another call that
\* only the outer except of the routine catches) raised
CreateFailedStatusNotFailed(routine) == "created_empty"
CreateFailedStatus(routine) ==
    IF routine = "upload_audience_with_maids" THEN "failed" ELSE "error"

\* status of the result when get_batch_audience_maids raised, for a group
\* whose count the routine saw as seen
FetchFailedStatusNoDegrade(routine, seen) ==
    CASE routine = "process_large_app" -> "created_fetch_failed"
      [] routine = "upload_audience_with_maids" -> "failed"
      [] OTHER -> "error"
FetchFailedStatus(routine, seen) ==
    CASE routine = "upload_app_audience_optimized"
           /\ seen > LargeDatasetThreshold -> "skipped"
      [] routine = "process_large_app" -> "created_fetch_failed"
      [] routine = "upload_audience_with_maids" -> "failed"
      [] OTHER -> "error"

\* status of a result that is returned before the chunk loop, or "uploading"
\* when the loop is entered
StatusBeforeUpload(routine, x, maid_count) ==
    LET seen == SeenCount(x, maid_count)
        failed == CreateFailedStatus(routine)
        fetch_failed == FetchFailedStatus(routine, seen)
        empty == IF routine = "upload_audience_with_maids" THEN "success"
                 ELSE "created_empty"
    IN
    IF StopsAtList(routine, x)
    THEN (IF x.list_ok THEN "skipped" ELSE failed)
    ELSE IF StopsAtCount(routine, x, maid_count)
    THEN (IF seen > 0 /\ routine = "upload_single_app_audience"
          THEN "dry_run" ELSE "skipped")
    ELSE IF ~x.create_ok THEN failed
    ELSE IF ~FetchCalled(routine, x, maid_count) THEN "created_no_upload"
    ELSE IF ~x.fetch_ok THEN fetch_failed
    ELSE IF FetchedBatchLens(routine, x, maid_count) = <<>> THEN empty
    ELSE "uploading"

\* result['reason'] (result['error'] in upload_single_app_audience) of a
\* result with status 'skipped'
SkipReason(routine, x, maid_count) ==
    IF StopsAtList(routine, x)
    THEN (IF x.list_ok THEN "already_exists" ELSE "none")
    ELSE IF StopsAtCount(routine, x, maid_count)
    THEN (IF SeenCount(x, maid_count) = 0 THEN "no_maids"
          ELSE IF routine = "upload_app_safely" THEN "too_large"
          ELSE "none")
    ELSE IF StatusBeforeUpload(routine, x, maid_count) = "skipped"
    THEN "too_large_to_fetch"
    ELSE "none"

\* audience_id of a result returned before the chunk loop
AudienceIdBeforeUpload(routine, x, maid_count) ==
    IF StopsAtList(routine, x) /\ x.list_ok
    THEN "existing"
    ELSE IF Created(routine, x, maid_count)
            /\ ~(routine = "upload_audience_with_maids" /\ ~x.fetch_ok)
    THEN "created"
    ELSE "none"

NoResult == [status |-> "pending", reason |-> "none", audience_id |-> "none",
             has_maids_uploaded |-> FALSE, maids_uploaded |-> 0]

\* calls made for the group, for the properties
InitialTransferHist ==
    [chunks_total |-> 0, chunks_sent |-> 0, chunks_failed |-> 0,
     count_calls |-> 0, create_calls |-> 0, fetch_calls |-> 0,
     list_raised |-> FALSE, fetch_count_raised |-> FALSE, sizes |-> <<>>,
     maids_fetched |-> 0, retried |-> FALSE, dry_run |-> FALSE,
     unanswered_counted |-> FALSE,
     fetch_raised |-> FALSE,
     create_raised |-> FALSE, count_raised |-> FALSE, seen_count |-> 0]

\* the calls the routine makes up to the chunk loop
HistBeforeUpload(routine, x, maid_count) ==
    [InitialTransferHist EXCEPT
        !.count_calls = IF ChecksCount(routine) /\ ~StopsAtList(routine, x)
                        THEN 1 ELSE 0,
        !.create_calls = IF CreateCalled(routine, x, maid_count) THEN 1 ELSE 0,
        !.create_raised = CreateCalled(routine, x, maid_count) /\ ~x.create_ok,
        !.fetch_calls = IF FetchCalled(routine, x, maid_count) THEN 1 ELSE 0,
        !.fetch_raised = FetchCalled(routine, x, maid_count) /\ ~x.fetch_ok,
        !.dry_run = routine = "upload_single_app_audience" /\ x.dry_run,
        !.list_raised = /\ ChecksExisting(routine)
                        /\ x.skip_existing
                        /\ ~x.list_ok,
        !.fetch_count_raised = /\ FetchCalled(routine, x, maid_count)
                               /\ x.fetch_ok
                               /\ ~x.fetch_count_ok,
        !.count_raised = /\ ChecksCount(routine)
                         /\ ~StopsAtList(routine, x)
                         /\ ~x.count_ok,
        !.seen_count = IF ChecksCount(routine) /\ ~StopsAtList(routine, x)
                       THEN SeenCount(x, maid_count) ELSE 0]

\* sum(len(batch) for batch in batches)
RECURSIVE total_maids_fetched(_)
total_maids_fetched(lens) ==
    IF lens = <<>> THEN 0 ELSE Head(lens) + total_maids_fetched(Tail(lens))

\* "users_uploaded" of the append call's answer: len(users), whatever number
\* of HTTP attempts the request behind it took
users_uploaded_per_attempt(total_users, attempts) == total_users * attempts
users_uploaded(total_users, attempts) == total_users

\* number of chunks the loops cut from batches of the given lengths
RECURSIVE ChunkCount(_, _, _)
ChunkCount(routine, batch_size, lens) ==
    IF lens = <<>> THEN 0
    ELSE LET size == ChunkSize(routine, batch_size, Head(lens)) IN
         (Head(lens) + size - 1) \div size
         + ChunkCount(routine, batch_size, Tail(lens))

TransferInit ==
    /\ t_routine \in Routines
    /\ t_pc = "start"
    /\ t_maid_count \in RoutineCounts(t_routine)
    /\ t_batch_size \in TransferBatchSizes
    /\ t_routine # "upload_app_audience_optimized"
          => t_batch_size = 100000
    /\ t_maid_count <= MaxTransferChunks * t_batch_size
    /\ t_audience_id = "none"
    /\ t_batches = <<>>
    /\ t_b = 1
    /\ t_i = 0
    /\ t_total_uploaded = 0
    /\ t_result = NoResult
    /\ t_hist = InitialTransferHist
    /\ UploaderIdle
    /\ FetchIdle
    /\ RechunkIdle
    /\ RequestIdle
    /\ PipelineIdle
    /\ PayloadIdle
    /\ StartupIdle
    /\ NameIdle
    /\ CreateIdle
    /\ ChunkedIdle
    /\ FileUploadIdle
    /\ ResilientIdle
    /\ RollbackIdle

\* The routine up to the chunk loop, meeting x.
BeginGroupWith(x) ==
    LET status == StatusBeforeUpload(t_routine, x, t_maid_count)
        id == AudienceIdBeforeUpload(t_routine, x, t_maid_count)
        lens == FetchedBatchLens(t_routine, x, t_maid_count)
        hist == HistBeforeUpload(t_routine, x, t_maid_count)
    IN  /\ t_pc = "start"
        /\ t_audience_id' = id
        /\ IF status = "uploading"
           THEN /\ t_pc' = "uploading"
                /\ t_batches' = lens
                /\ t_result' = [NoResult EXCEPT !.audience_id = id]
                /\ t_hist' = [hist EXCEPT
                       !.maids_fetched = total_maids_fetched(lens),
                       !.chunks_total =
                           ChunkCount(t_routine, t_batch_size, lens)]
           ELSE /\ t_pc' = "done"
                /\ t_batches' = <<>>
                /\ t_result' = [NoResult EXCEPT
                       !.status = status,
                       !.reason = SkipReason(t_routine, x, t_maid_count),
                       !.audience_id = id,
                       !.has_maids_uploaded =
                           (t_routine = "upload_audience_with_maids")]
                /\ t_hist' = hist
        /\ t_b' = 1
        /\ t_i' = 0
        /\ t_total_uploaded' = 0
        /\ UNCHANGED <<t_routine, t_maid_count, t_batch_size>>

BeginGroup ==
    /\ \E x \in GroupInputs : BeginGroupWith(x)
    /\ UNCHANGED notTransferVars

\* One append call of the chunk loop, for the chunk at offset t_i of batch
\* t_b, and the step of the loops to the next chunk.
AppendChunkStep ==
    /\ t_pc = "uploading"
    /\ t_b <= Len(t_batches)
    /\ \E request \in MakeRequestResults, attempts \in 1..MAX_RETRIES :
         LET append_ok == append_returns(request)
             len   == t_batches[t_b]
             size  == ChunkSize(t_routine, t_batch_size, len)
             chunk == Min(size, len - t_i)
             aborts == ~append_ok /\ ~CatchesFailedAppend(t_routine)
         IN  /\ request # "json" => attempts = MAX_RETRIES
             /\ ~append_ok => t_hist.chunks_failed < MaxFailedChunks
             /\ t_hist' = [t_hist EXCEPT
                    !.chunks_sent = @ + 1,
                    !.sizes = IF Len(@) < MaxLoggedChunks
                              THEN Append(@, chunk) ELSE @,
                    !.retried = @ \/ attempts > 1,
                    !.unanswered_counted =
                        @ \/ (request = "None" /\ append_ok),
                    !.chunks_failed = IF append_ok THEN @ ELSE @ + 1]
             /\ t_total_uploaded' =
                    IF append_ok
                    THEN t_total_uploaded + users_uploaded(chunk, attempts)
                    ELSE t_total_uploaded
             /\ IF aborts
                THEN /\ t_pc' = "done"
                     /\ t_result' =
                          IF t_routine = "upload_audience_with_maids"
                          THEN [status |-> "failed", reason |-> "none",
                                audience_id |-> "none",
                                has_maids_uploaded |-> TRUE,
                                maids_uploaded |-> 0]
                          ELSE [t_result EXCEPT !.status = "error"]
                     /\ UNCHANGED <<t_b, t_i>>
                ELSE /\ UNCHANGED <<t_pc, t_result>>
                     /\ IF t_i + size < len
                        THEN t_i' = t_i + size /\ t_b' = t_b
                        ELSE t_i' = 0 /\ t_b' = t_b + 1
    /\ UNCHANGED <<t_routine, t_maid_count, t_batch_size, t_audience_id,
                   t_batches>>

AppendChunk ==
    /\ AppendChunkStep
    /\ UNCHANGED notTransferVars

\* The routine after the chunk loop.
FinishGroupStep ==
    /\ t_pc = "uploading"
    /\ t_b > Len(t_batches)
    /\ t_pc' = "done"
    /\ t_result' = [t_result EXCEPT
           !.status = FinalStatus(t_routine, t_total_uploaded),
           !.has_maids_uploaded = CarriesUploaded(t_routine, t_total_uploaded),
           !.maids_uploaded = IF CarriesUploaded(t_routine, t_total_uploaded)
                              THEN t_total_uploaded ELSE 0]
    /\ UNCHANGED <<t_routine, t_maid_count, t_batch_size, t_audience_id,
                   t_batches, t_b, t_i, t_total_uploaded, t_hist>>

FinishGroup ==
    /\ FinishGroupStep
    /\ UNCHANGED notTransferVars

TransferNext ==
    \/ BeginGroup
    \/ AppendChunk
    \/ FinishGroup

SpecTransfer == TransferInit /\ [][TransferNext]_vars

(***************************************************************************)
(* main() of optimized_etl_pipeline.py: the loop over the apps of the CSV, *)
(* each handed to upload_app_audience_optimized, the result appended to    *)
(* results and the whole of results written to the progress file.  A       *)
(* KeyboardInterrupt is caught nowhere in the module.                      *)
(***************************************************************************)
\* list_custom_audiences(limit=500): the Sink answers with one page
ListLimit == 500
\* the --batch-size the pipeline is run with
ArgsBatchSizes == {2000000}

PipelineCounts == {0, 120000, 22500000}

\* names of the apps of the CSV
AppNames == 1..MaxAppNames

\* --skip-existing is a store_true flag whose default is True
ArgsSkipExisting == TRUE

\* audiences the ad account holds
AccountAudiences ==
    LET RECURSIVE SumUpTo(_)
        SumUpTo(k) == IF k = 0 THEN 0 ELSE m_sink[k] + SumUpTo(k - 1)
    IN  m_foreign + SumUpTo(MaxAppNames)

\* the call of upload_app_audience_optimized for the app of the given count
CallRoutine(maid_count) ==
    /\ t_routine' = "upload_app_audience_optimized"
    /\ t_pc' = "start"
    /\ t_maid_count' = maid_count
    /\ UNCHANGED t_batch_size
    /\ t_audience_id' = "none"
    /\ t_batches' = <<>>
    /\ t_b' = 1
    /\ t_i' = 0
    /\ t_total_uploaded' = 0
    /\ t_result' = NoResult
    /\ t_hist' = InitialTransferHist

\* the progress file: absent, unparsable, or a JSON list of so many results
NoProgressFile == [kind |-> "missing", results |-> 0]

\* a Sink call for app i is made: its number goes to the log
LogCall(log, i) ==
    IF log # <<>> /\ log[Len(log)] = i THEN log ELSE Append(log, i)

PipelineInit ==
    /\ m_pc = "loop"
    /\ m_run = 1
    /\ m_apps \in {a \in SeqsUpTo(AppNames, MaxApps) :
                      a # <<>> /\ a[1] = 1}
    /\ m_count \in [AppNames -> PipelineCounts]
    /\ m_i = 1
    /\ m_results = <<>>
    /\ m_progress = NoProgressFile
    /\ m_sink \in [AppNames -> {0, 1}]
    /\ m_foreign \in {0, ListLimit}
    /\ m_log = <<>>
    /\ t_routine = "upload_app_audience_optimized"
    /\ t_pc = "start"
    /\ t_maid_count = m_count[m_apps[1]]
    /\ t_batch_size \in ArgsBatchSizes
    /\ t_audience_id = "none"
    /\ t_batches = <<>>
    /\ t_b = 1
    /\ t_i = 0
    /\ t_total_uploaded = 0
    /\ t_result = NoResult
    /\ t_hist = InitialTransferHist
    /\ UploaderIdle
    /\ FetchIdle
    /\ RechunkIdle
    /\ RequestIdle
    /\ PayloadIdle
    /\ StartupIdle
    /\ NameIdle
    /\ CreateIdle
    /\ ChunkedIdle
    /\ FileUploadIdle
    /\ ResilientIdle
    /\ RollbackIdle

\* upload_app_audience_optimized up to its chunk loop, for app m_i.  The
\* list call names the audience when the account's audiences fit in one
\* page; beyond that the page may or may not hold it.
GroupBegins ==
    /\ m_pc = "loop"
    /\ \E x \in GroupInputs :
         /\ x.skip_existing = ArgsSkipExisting
         /\ ~x.dry_run
         /\ x.exists = (m_sink[m_apps[m_i]] > 0)
         /\ (x.exists /\ AccountAudiences <= ListLimit) => x.listed
         /\ BeginGroupWith(x)
         /\ m_sink' = IF Created(t_routine, x, t_maid_count)
                      THEN [m_sink EXCEPT ![m_apps[m_i]] = @ + 1]
                      ELSE m_sink
    /\ m_log' = LogCall(m_log, m_i)
    /\ UNCHANGED <<m_pc, m_run, m_apps, m_count, m_i, m_results, m_progress,
                   m_foreign>>
    /\ UNCHANGED notPipelineVars

\* one append call of the chunk loop
GroupAppends ==
    /\ m_pc = "loop"
    /\ AppendChunkStep
    /\ m_log' = LogCall(m_log, m_i)
    /\ UNCHANGED <<m_pc, m_run, m_apps, m_count, m_i, m_results, m_progress,
                   m_sink, m_foreign>>
    /\ UNCHANGED notPipelineVars

\* upload_app_audience_optimized after its chunk loop
GroupFinishes ==
    /\ m_pc = "loop"
    /\ FinishGroupStep
    /\ UNCHANGED pipelineVars
    /\ UNCHANGED notPipelineVars

\* what main keeps of a result
ResultOf(i) ==
    [name |-> m_apps[i], status |-> t_result.status,
     audience_id |-> t_result.audience_id, appends |-> t_hist.chunks_sent,
     create_raised |-> t_hist.create_raised,
     fetch_raised |-> t_hist.fetch_raised]

\* The rest of the loop body: results.append(result), the statistics, the
\* progress file written anew with all of results, and the next app.  An
\* error of open() or json.dump() is not caught.
RecordResult ==
    /\ m_pc = "loop"
    /\ t_pc = "done"
    /\ m_results' = Append(m_results, ResultOf(m_i))
    /\ \E io \in IOOutcomes :
         IF io = "ok"
         THEN /\ m_progress' = [kind |-> "valid",
                                 results |-> Len(m_results')]
              /\ IF m_i < Len(m_apps)
                 THEN /\ m_i' = m_i + 1
                      /\ m_pc' = "loop"
                      /\ CallRoutine(m_count[m_apps[m_i + 1]])
                 ELSE /\ m_pc' = "done"
                      /\ UNCHANGED m_i
                      /\ UNCHANGED transferVars
         ELSE /\ m_progress' =
                    IF io = "open_fails" THEN m_progress
                    ELSE [kind |-> "corrupt", results |-> 0]
              /\ m_pc' = "crashed"
              /\ UNCHANGED m_i
              /\ UNCHANGED transferVars
    /\ UNCHANGED <<m_run, m_apps, m_count, m_sink, m_foreign, m_log>>
    /\ UNCHANGED notPipelineVars

\* The operator interrupts the process (KeyboardInterrupt): it leaves main
\* from wherever it is raised.
Interrupt ==
    /\ m_pc = "loop"
    /\ m_pc' = "interrupted"
    /\ UNCHANGED <<m_run, m_apps, m_count, m_i, m_results, m_progress, m_sink,
                   m_foreign, m_log>>
    /\ UNCHANGED transferVars
    /\ UNCHANGED notPipelineVars

\* The pipeline is started again on the same CSV.
RunAgain ==
    /\ m_pc \in {"done", "crashed", "interrupted"}
    /\ m_run < MaxPipelineRuns
    /\ m_run' = m_run + 1
    /\ m_pc' = "loop"
    /\ m_i' = 1
    /\ m_results' = <<>>
    /\ m_log' = <<>>
    /\ CallRoutine(m_count[m_apps[1]])
    /\ UNCHANGED <<m_apps, m_count, m_progress, m_sink, m_foreign>>
    /\ UNCHANGED notPipelineVars

\* What sys.exit(main()) hands to the shell: main returns 0 after the loop
\* whatever the statuses of the results; an exception or KeyboardInterrupt
\* that leaves main ends the interpreter with a status that is not 0.
main_exit_code(pc) == IF pc = "done" THEN 0 ELSE 1

PipelineNext ==
    \/ GroupBegins
    \/ GroupAppends
    \/ GroupFinishes
    \/ RecordResult
    \/ Interrupt
    \/ RunAgain

SpecPipeline == PipelineInit /\ [][PipelineNext]_vars

(***************************************************************************)
(* The payload of the append operations of the Sink clients:               *)
(* MetaAPIClient.add_users_to_audience, OptimizedMetaAPIClient.            *)
(* add_users_to_audience_batch, ResilientMetaAPIClient.                    *)
(* add_users_batch_with_retry.  A value is a string, here a sequence of    *)
(* characters, or the hex digest of one.                                   *)
(***************************************************************************)
Chars == {"A", "a", " "}

\* hashlib.sha256(s.encode()).hexdigest()
Sha256(text) == <<"sha256", text>>

IsDigest(value) == value # <<>> /\ value[1] = "sha256"

\* the values a caller puts in a user record: strings, and a digest the
\* caller computed
UserValues == SeqsUpTo(Chars, MaxValueLen) \cup {Sha256(<<"a">>)}

\* str.lower(); a hex digest has no upper-case letter
lower(value) ==
    IF IsDigest(value) THEN value
    ELSE [i \in 1..Len(value) |-> IF value[i] = "A" THEN "a" ELSE value[i]]

\* str.strip(); a hex digest has no white space
RECURSIVE lstrip(_)
lstrip(value) ==
    IF value # <<>> /\ Head(value) = " " THEN lstrip(Tail(value)) ELSE value

RECURSIVE rstrip(_)
rstrip(value) ==
    IF value # <<>> /\ value[Len(value)] = " "
    THEN rstrip(SubSeq(value, 1, Len(value) - 1))
    ELSE value

strip(value) == IF IsDigest(value) THEN value ELSE rstrip(lstrip(value))

\* hash_user_data
hash_user_data(data) == Sha256(strip(lower(data)))

Fields == {"MADID", "EMAIL"}

\* field.lower()
FieldKey(field) == IF field = "MADID" THEN "madid" ELSE "email"

AppendMethods ==
    {"add_users_to_audience", "add_users_to_audience_batch",
     "add_users_batch_with_retry"}

\* the value put in the row for one field of the schema
PayloadValueHashingAll(method, field, value, is_hashed) ==
    IF value # <<>> /\ ~is_hashed THEN hash_user_data(value) ELSE value
PayloadValue(method, field, value, is_hashed) ==
    IF method = "add_users_batch_with_retry"
    THEN value
    ELSE IF value # <<>> /\ ~is_hashed /\ field # "MADID"
         THEN hash_user_data(value)
         ELSE value

\* the row of data_array for one user
PayloadRow(method, schema, user, is_hashed) ==
    [j \in 1..Len(schema) |->
        PayloadValue(method, schema[j], user[FieldKey(schema[j])], is_hashed)]

PayloadInit ==
    /\ p_pc = "start"
    /\ p_method \in AppendMethods
    /\ p_schema \in SeqsUpTo(Fields, 2) \ {<<>>}
    /\ p_user \in [{"madid", "email"} -> UserValues]
    /\ p_is_hashed \in BOOLEAN
    /\ p_row = <<>>
    /\ UploaderIdle
    /\ FetchIdle
    /\ RechunkIdle
    /\ RequestIdle
    /\ TransferIdle
    /\ PipelineIdle
    /\ StartupIdle
    /\ NameIdle
    /\ CreateIdle
    /\ ChunkedIdle
    /\ FileUploadIdle
    /\ ResilientIdle
    /\ RollbackIdle

BuildPayload ==
    /\ p_pc = "start"
    /\ p_row' = PayloadRow(p_method, p_schema, p_user, p_is_hashed)
    /\ p_pc' = "done"
    /\ UNCHANGED <<p_method, p_schema, p_user, p_is_hashed>>
    /\ UNCHANGED notPayloadVars

PayloadNext == BuildPayload

SpecPayload == PayloadInit /\ [][PayloadNext]_vars

(***************************************************************************)
(* The start of the entry points: main.py (validate_configuration, then    *)
(* the client and the CSV), batch_upload_from_csv.py and                   *)
(* optimized_etl_pipeline.py (the client and the Snowflake connection),    *)
(* up to the first Source query and Sink call of the first group.          *)
(***************************************************************************)
Entries == {"main.py", "batch_upload_from_csv.py", "optimized_etl_pipeline.py"}

\* the class attributes of Config (src/config.py)
ConfigAttributes ==
    {"META_ACCESS_TOKEN", "META_AD_ACCOUNT_ID", "META_API_VERSION",
     "META_API_BASE_URL", "SNOWFLAKE_ACCOUNT", "SNOWFLAKE_USER",
     "SNOWFLAKE_PASSWORD", "SNOWFLAKE_DATABASE", "SNOWFLAKE_SCHEMA",
     "SNOWFLAKE_WAREHOUSE", "SNOWFLAKE_ROLE", "SNOWFLAKE_PAT_TOKEN",
     "DEFAULT_BATCH_SIZE", "MAX_BATCH_SIZE", "API_CALLS_PER_HOUR",
     "MAX_RETRIES", "RETRY_DELAY", "LOG_DIR"}

\* Config.<attribute> evaluates; otherwise it raises AttributeError
HasAttr(attribute) == attribute \in ConfigAttributes

\* what the environment holds: the access token, the ad account id, the
\* Snowflake account, user and password or PAT, and the CSV file on disk
Environments ==
    [token : BOOLEAN, account : BOOLEAN, snowflake : BOOLEAN, csv : BOOLEAN]

\* the flags of the entry point that bear on the start
ArgsOf(entry) ==
    CASE entry = "main.py" ->
             [force : BOOLEAN, dry_run : BOOLEAN, ad_account_id : BOOLEAN]
      [] entry = "batch_upload_from_csv.py" ->
             [force : {FALSE}, dry_run : BOOLEAN, ad_account_id : {FALSE}]
      [] OTHER ->
             [force : {FALSE}, dry_run : {FALSE}, ad_account_id : {FALSE}]

\* validate_configuration() of main.py: "True", "False", or the exception
\* the lookup of Config.CSV_FILE_PATH raises
validate_configuration(env) ==
    IF ~HasAttr("CSV_FILE_PATH") THEN "AttributeError"
    ELSE IF env.token /\ env.account /\ env.csv THEN "True" ELSE "False"

\* the client class the entry point imports, and the Config attribute its
\* constructor reads the base URL from
ClientClass(entry) ==
    IF entry = "optimized_etl_pipeline.py" THEN "OptimizedMetaAPIClient"
    ELSE "MetaAPIClient"

BaseUrlAttribute(class) ==
    IF class = "OptimizedMetaAPIClient" THEN "META_API_BASE_URL"
    ELSE "META_BASE_URL"

\* __init__ of the client: only the ad account id is required
ClientInit(class, env, args) ==
    IF ~(args.ad_account_id \/ env.account) THEN "ValueError"
    ELSE IF ~HasAttr(BaseUrlAttribute(class)) THEN "AttributeError"
    ELSE "ok"

\* the entry point makes Source queries
UsesSource(entry) == entry # "main.py"

NoCalls == [source |-> 0, sink |-> 0]

StartupInit ==
    /\ s_pc = "start"
    /\ s_entry \in Entries
    /\ s_env \in Environments
    /\ s_args \in ArgsOf(s_entry)
    /\ s_calls = NoCalls
    /\ s_exit = "none"
    /\ UploaderIdle
    /\ FetchIdle
    /\ RechunkIdle
    /\ RequestIdle
    /\ TransferIdle
    /\ PipelineIdle
    /\ PayloadIdle
    /\ NameIdle
    /\ CreateIdle
    /\ ChunkedIdle
    /\ FileUploadIdle
    /\ ResilientIdle
    /\ RollbackIdle

\* main of main.py up to the try block
ValidateConfiguration ==
    /\ s_pc = "start"
    /\ s_entry = "main.py"
    /\ LET valid == validate_configuration(s_env)
       IN  CASE valid = "AttributeError" ->
                    s_pc' = "exited" /\ s_exit' = "traceback"
             [] valid = "False" /\ ~s_args.force ->
                    s_pc' = "exited" /\ s_exit' = "sys.exit(1)"
             [] OTHER ->
                    s_pc' = "validated" /\ s_exit' = s_exit
    /\ UNCHANGED <<s_entry, s_env, s_args, s_calls>>
    /\ UNCHANGED notStartupVars

\* "Initializing components" / "Initializing connections": the client, then
\* the CSV (main.py) or the Snowflake connection (the other two); any
\* exception ends the process with status 1.
InitializeConnections ==
    /\ \/ s_entry = "main.py" /\ s_pc = "validated"
       \/ s_entry # "main.py" /\ s_pc = "start"
    /\ LET client == ClientInit(ClientClass(s_entry), s_env, s_args)
           rest == IF UsesSource(s_entry) THEN s_env.snowflake
                   ELSE HasAttr("CSV_FILE_PATH") /\ s_env.csv
       IN  IF client = "ok" /\ rest
           THEN s_pc' = "connected" /\ s_exit' = s_exit
           ELSE s_pc' = "exited" /\ s_exit' = "1"
    /\ UNCHANGED <<s_entry, s_env, s_args, s_calls>>
    /\ UNCHANGED notStartupVars

\* The first group: the look for an existing audience
\* (optimized_etl_pipeline.py), get_audience_count (the two that use the
\* Source), and create_custom_audience unless the run is a dry run.
BeginRun ==
    /\ s_pc = "connected"
    /\ s_calls' =
          [source |-> IF UsesSource(s_entry) THEN 1 ELSE 0,
           sink |-> IF s_args.dry_run THEN 0 ELSE 1]
    /\ s_pc' = "running"
    /\ UNCHANGED <<s_entry, s_env, s_args, s_exit>>
    /\ UNCHANGED notStartupVars

\* The run ends.
EndRun ==
    /\ s_pc = "running"
    /\ s_pc' = "exited"
    /\ s_exit' = "0"
    /\ UNCHANGED <<s_entry, s_env, s_args, s_calls>>
    /\ UNCHANGED notStartupVars

StartupNext ==
    \/ ValidateConfiguration
    \/ InitializeConnections
    \/ BeginRun
    \/ EndRun

SpecStartup == StartupInit /\ [][StartupNext]_vars

(***************************************************************************)
(* The display name of the audience of an app: create_audience_name        *)
(* (batch_upload_from_csv.py), create_correct_audience_name                *)
(* (optimized_etl_pipeline.py) and _clean_audience_name                    *)
(* (data_processor.py).  A string is a sequence of characters.             *)
(***************************************************************************)
\* the characters str.isalnum() is true for: the ASCII letters and digits
\* and the letters of other alphabets, of which one stands here
AsciiAlnum ==
    {     "a", "b", "c", "d", "e", "f", "g", "h", "i", "j", "k", "l", "m", "n",
     "o", "p", "q", "r", "s", "t", "u", "v", "w", "x", "y", "z", "A", "B",
     "C", "D", "E", "F", "G", "H", "I", "J", "K", "L", "M", "N", "O", "P",
     "Q", "R", "S", "T", "U", "V", "W", "X", "Y", "Z", "0", "1", "2", "3",
     "4", "5", "6", "7", "8", "9"}

OtherAlnum == {"e-acute"}

isalnum(c) == c \in AsciiAlnum \cup OtherAlnum

\* str.replace(old, new) for a one-character old: every occurrence is
\* replaced, so the halves of the text can be done apart
RECURSIVE replace(_, _, _)
replace(text, old, new) ==
    IF text = <<>> THEN <<>>
    ELSE IF Len(text) = 1
    THEN (IF text[1] = old THEN new ELSE text)
    ELSE LET half == Len(text) \div 2
         IN  replace(SubSeq(text, 1, half), old, new)
             \o replace(SubSeq(text, half + 1, Len(text)), old, new)

\* where the run of spaces that holds the space at k begins
RunStart(text, k) ==
    CHOOSE i \in 1..k :
        /\ \A j \in i..k : text[j] = " "
        /\ i = 1 \/ text[i - 1] # " "

\* str.replace('  ', ' '): the pairs of spaces are met from the left and do
\* not overlap, so of a run of spaces the first, third, ... are left
replace_two_spaces(text) ==
    LET numbered == [k \in 1..Len(text) |-> <<k, text[k]>>]
        second(k) == /\ text[k] = " "
                     /\ (k - RunStart(text, k)) % 2 = 1
        kept == SelectSeq(numbered, LAMBDA p : ~second(p[1]))
    IN  [k \in 1..Len(kept) |-> kept[k][2]]

HasTwoSpaces(text) ==
    \E k \in 1..(Len(text) - 1) : text[k] = " " /\ text[k + 1] = " "

\* while '  ' in clean_name: clean_name = clean_name.replace('  ', ' ')
RECURSIVE WhileTwoSpaces(_)
WhileTwoSpaces(text) ==
    IF HasTwoSpaces(text) THEN WhileTwoSpaces(replace_two_spaces(text))
    ELSE text

\* text[:n]
SliceTo(text, n) ==
    IF n >= 0 THEN SubSeq(text, 1, Min(n, Len(text)))
    ELSE SubSeq(text, 1, IF Len(text) + n > 0 THEN Len(text) + n ELSE 0)

\* create_audience_name(app_name, os_type)
create_audience_name(app_name, os_type) ==
    LET kept == SelectSeq(app_name,
                          LAMBDA c : isalnum(c) \/ c \in {" ", "-"})
        clean_name == replace(replace(kept, " ", <<"_">>), "-", <<"_">>)
        clean_os == replace(replace(os_type, " ", <<>>), "-", <<"_">>)
        head == <<"U", "S", "_">> \o clean_os \o <<"_">>
        tail == <<"_", "P", "I", "E">>
        audience_name == head \o clean_name \o tail
        max_app_length == 200 - (Len(head) + Len(tail))
    IN  IF Len(audience_name) > 200
        THEN head \o SliceTo(clean_name, max_app_length) \o tail
        ELSE audience_name

\* the replace calls of create_correct_audience_name, in their order
CorrectReplacements ==
    << <<":", <<>>>>, <<"-", <<>>>>, <<"tm", <<>>>>, <<"reg", <<>>>>,
       <<"!", <<>>>>, <<"&", <<"a", "n", "d">>>>,
       <<"+", <<"p", "l", "u", "s">>>>, <<"/", <<" ">>>>,
       <<"\\", <<" ">>>>, <<"en-dash", <<" ">>>>, <<"em-dash", <<" ">>>> >>

RECURSIVE ReplaceAll(_, _)
ReplaceAll(text, pairs) ==
    IF pairs = <<>> THEN text
    ELSE ReplaceAll(replace(text, Head(pairs)[1], Head(pairs)[2]),
                    Tail(pairs))

\* len('US__PIE')
LenUsPie == 7

\* create_correct_audience_name(app_name, os)
create_correct_audience_name(app_name, os) ==
    LET replaced == ReplaceAll(app_name, CorrectReplacements)
        clean_name == rstrip(lstrip(WhileTwoSpaces(replaced)))
        max_length == 200 - LenUsPie - Len(os)
        cut == IF Len(clean_name) > max_length
               THEN rstrip(SliceTo(clean_name, max_length))
               ELSE clean_name
    IN  <<"U", "S", "_">> \o os \o <<"_">> \o cut \o <<"_", "P", "I", "E">>

\* the characters the pattern [^\w\s\-\.] leaves in place
KeptByCleanPattern(c) == isalnum(c) \/ c \in {"_", " ", "-", "."}

\* re.sub(r'\s+', ' ', clean): of the white space only the space stands here
collapse_whitespace(text) == WhileTwoSpaces(text)

\* AudienceDataProcessor._clean_audience_name(name)
_clean_audience_name(name) ==
    LET clean == SelectSeq(name, LAMBDA c : KeptByCleanPattern(c))
    IN  rstrip(lstrip(SliceTo(collapse_whitespace(clean), 200)))

NameFunctions ==
    {"create_audience_name", "create_correct_audience_name",
     "_clean_audience_name"}

DisplayName(function, app_name, os) ==
    CASE function = "create_audience_name" ->
             create_audience_name(app_name, os)
      [] function = "create_correct_audience_name" ->
             create_correct_audience_name(app_name, os)
      [] OTHER -> _clean_audience_name(app_name)

\* the app name and the platform of the worked example
HitItRich ==
    <<"H", "i", "t", " ", "i", "t", " ", "R", "i", "c", "h", "!", " ", "F",
      "r", "e", "e", " ", "C", "a", "s", "i", "n", "o", " ", "S", "l", "o",
      "t", "s">>

Android == <<"A", "n", "d", "r", "o", "i", "d">>

\* the platforms of the CSV
Platforms == {Android, <<"i", "O", "S">>}

\* characters enumerated at the head of an app name
NameChars == {"a", " ", "-", "!", "&", "'", ".", "e-acute"}

\* n letters
Letters(n) == [k \in 1..n |-> "a"]

AppNameInputs ==
    {HitItRich} \cup
    {prefix \o Letters(pad) :
        prefix \in SeqsUpTo(NameChars, MaxNamePrefix),
        pad \in {0, MaxNamePad}}

NameInit ==
    /\ n_pc = "start"
    /\ n_function \in NameFunctions
    /\ n_app_name \in AppNameInputs
    /\ n_os \in Platforms
    /\ n_name = <<>>
    /\ UploaderIdle
    /\ FetchIdle
    /\ RechunkIdle
    /\ RequestIdle
    /\ TransferIdle
    /\ PipelineIdle
    /\ PayloadIdle
    /\ StartupIdle
    /\ CreateIdle
    /\ ChunkedIdle
    /\ FileUploadIdle
    /\ ResilientIdle
    /\ RollbackIdle

DeriveName ==
    /\ n_pc = "start"
    /\ n_name' = DisplayName(n_function, n_app_name, n_os)
    /\ n_pc' = "done"
    /\ UNCHANGED <<n_function, n_app_name, n_os>>
    /\ UNCHANGED notNameVars

NameNext == DeriveName

SpecName == NameInit /\ [][NameNext]_vars


(***************************************************************************)
(* create_custom_audience of MetaAPIClient / OptimizedMetaAPIClient: one   *)
(* POST to <ad account>/customaudiences through _make_request, whose retry *)
(* loop sends the same request again after a 429 and after a               *)
(* RequestException.  The Sink creates an audience each time it processes  *)
(* the request; it has no idempotency key to recognise a repetition by.    *)
(***************************************************************************)
SinkClients == {"MetaAPIClient", "OptimizedMetaAPIClient"}

\* What one session.request of the creation request meets:
\*   ok             the Sink processed it and its 2xx answer arrived
\*   429            the Sink refused it
\*   http_error     the Sink refused it with another 4xx / 5xx status
\*   conn_error     it never reached the Sink (ConnectionError)
\*   lost_response  the Sink processed it and the answer never arrived
\*                  (ReadTimeout, connection reset)
CreateOutcomes == {"ok", "429", "http_error", "conn_error", "lost_response"}

\* whether the Sink processed the request, and so created an audience
SinkCreates(outcome) == outcome \in {"ok", "lost_response"}

\* for attempt in range(Config.MAX_RETRIES): whether another pass follows
\* the pass numbered attempt
LoopGoesOn(attempt) == attempt < MAX_RETRIES - 1

CreateInit ==
    /\ c_pc = "start"
    /\ c_client \in SinkClients
    /\ c_name \in AudienceNames
    /\ c_attempt = 0
    /\ c_outcomes = <<>>
    /\ c_created = 0
    /\ c_result = "none"
    /\ UploaderIdle
    /\ FetchIdle
    /\ RechunkIdle
    /\ RequestIdle
    /\ TransferIdle
    /\ PipelineIdle
    /\ PayloadIdle
    /\ StartupIdle
    /\ NameIdle
    /\ ChunkedIdle
    /\ FileUploadIdle
    /\ ResilientIdle
    /\ RollbackIdle

\* create_custom_audience up to its call of _make_request
CreateCustomAudience ==
    /\ c_pc = "start"
    /\ c_pc' = "attempt"
    /\ c_result' = "pending"
    /\ UNCHANGED <<c_client, c_name, c_attempt, c_outcomes, c_created>>
    /\ UNCHANGED notCreateVars

\* One pass of the retry loop of _make_request for the creation request,
\* and the return of create_custom_audience when the loop ends: the answer,
\* the exception of the last attempt, or the AttributeError of
\* response.get('id') when _make_request returned None.
SendCreateRequest ==
    /\ c_pc = "attempt"
    /\ \E outcome \in CreateOutcomes :
         /\ c_outcomes' = Append(c_outcomes, outcome)
         /\ c_created' = IF SinkCreates(outcome) THEN c_created + 1
                         ELSE c_created
         /\ IF outcome = "ok"
            THEN /\ c_pc' = "done"
                 /\ c_result' = "json"
                 /\ UNCHANGED c_attempt
            ELSE IF outcome = "429"
            THEN IF LoopGoesOn(c_attempt)
                 THEN /\ c_attempt' = c_attempt + 1
                      /\ UNCHANGED <<c_pc, c_result>>
                 ELSE /\ c_pc' = "done"
                      /\ c_result' = "AttributeError"
                      /\ UNCHANGED c_attempt
            ELSE IF LoopGoesOn(c_attempt)
                 THEN /\ c_attempt' = c_attempt + 1
                      /\ UNCHANGED <<c_pc, c_result>>
                 ELSE /\ c_pc' = "done"
                      /\ c_result' = "RequestException"
                      /\ UNCHANGED c_attempt
    /\ UNCHANGED <<c_client, c_name>>
    /\ UNCHANGED notCreateVars

CreateNext ==
    \/ CreateCustomAudience
    \/ SendCreateRequest

SpecCreate == CreateInit /\ [][CreateNext]_vars


(***************************************************************************)
(* _fetch_large_dataset_chunked, one pass of its while loop at a time.     *)
(* The store answers each LIMIT/OFFSET query with the rows asked for, with *)
(* fewer of them, with none, or the query raises; total_count is the       *)
(* number the count query gave earlier, which need not be the number of    *)
(* rows the store holds now.                                               *)
(***************************************************************************)
\* total_count handed to the function
ChunkedTotals == {k * CountStep : k \in {0, 1, 9, 10, 12}}
\* rows the store holds
ChunkedStoreCounts == {k * CountStep : k \in {0, 9, 10, 13}}
ChunkedBatchSizes == {BatchStep, 3 * BatchStep}

\* what the store does with a query
StoreAnswers == {"full", "short", "empty", "raises"}
\* rows of a short answer
ShortAnswerRows == CountStep

\* the rows cursor.fetchall() returns for LIMIT limit OFFSET offset
ChunkResults(rows, limit, offset, answer) ==
    CASE answer = "full"  -> LimitOffset(rows, limit, offset)
      [] answer = "short" -> LimitOffset(rows, Min(limit, ShortAnswerRows),
                                         offset)
      [] OTHER            -> <<>>

\* number of truthy rows of a result set
RECURSIVE TruthyRowCount(_)
TruthyRowCount(runs) ==
    IF runs = <<>> THEN 0
    ELSE (IF Head(runs).ok THEN Head(runs).hi - Head(runs).lo + 1 ELSE 0)
         + TruthyRowCount(Tail(runs))

\* total_fetched += len(chunk_results)
FetchedAfterTruthy(total_fetched, chunk_results) ==
    total_fetched + TruthyRowCount(chunk_results)
FetchedAfter(total_fetched, chunk_results) ==
    total_fetched + RowCount(chunk_results)

\* the except branch: the batches are returned when there are any, else the
\* exception is raised again
ExceptAlwaysRaises(batches) == FALSE
ExceptReturns(batches) == batches # <<>>

NoQueryYet == [offset |-> 0, received_before |-> 0, queries |-> 0,
               received |-> 0, failed |-> FALSE, empty_stop |-> FALSE]

ChunkedInit ==
    /\ k_pc = "start"
    /\ \E n \in ChunkedStoreCounts, has_empty \in BOOLEAN,
          has_null \in BOOLEAN :
         /\ has_empty => n >= 1
         /\ k_rows = StoreRows(n, has_empty, has_null)
    /\ k_total_count \in ChunkedTotals
    /\ k_batch_size \in ChunkedBatchSizes
    /\ k_total_fetched = 0
    /\ k_batches = <<>>
    /\ k_returned = <<>>
    /\ k_hist = NoQueryYet
    /\ UploaderIdle
    /\ FetchIdle
    /\ RechunkIdle
    /\ RequestIdle
    /\ TransferIdle
    /\ PipelineIdle
    /\ PayloadIdle
    /\ StartupIdle
    /\ NameIdle
    /\ CreateIdle
    /\ FileUploadIdle
    /\ ResilientIdle
    /\ RollbackIdle

\* batches = []; total_fetched = 0
EnterChunkedFetch ==
    /\ k_pc = "start"
    /\ k_pc' = "loop"
    /\ UNCHANGED <<k_rows, k_total_count, k_batch_size, k_total_fetched,
                   k_batches, k_returned, k_hist>>
    /\ UNCHANGED notChunkedVars

\* One pass of the while loop: the query, the rows of its answer put into
\* batches, total_fetched; the break on an empty answer; the except branch
\* when the query raises.
FetchChunk ==
    /\ k_pc = "loop"
    /\ k_total_fetched < k_total_count
    /\ \E answer \in StoreAnswers :
         LET current_chunk_size ==
                 Min(chunk_size, k_total_count - k_total_fetched)
             chunk_results == ChunkResults(k_rows, current_chunk_size,
                                           k_total_fetched, answer)
             chunk_len == RowCount(chunk_results)
             res == FillBatches(chunk_results, <<>>, k_batches, k_batch_size)
             kept == IF res.current_batch # <<>>
                        /\ KeepsChunkRemainder(res.current_batch,
                               k_batch_size, k_total_fetched, chunk_len,
                               k_total_count)
                     THEN Append(res.batches, res.current_batch)
                     ELSE res.batches
             asked == [k_hist EXCEPT !.offset = k_total_fetched,
                                     !.received_before = k_hist.received,
                                     !.queries = @ + 1]
         IN  IF answer = "raises"
             THEN /\ k_hist' = [asked EXCEPT !.failed = TRUE]
                  /\ IF ExceptReturns(k_batches)
                     THEN k_pc' = "returned" /\ k_returned' = k_batches
                     ELSE k_pc' = "raised" /\ UNCHANGED k_returned
                  /\ UNCHANGED <<k_total_fetched, k_batches>>
             ELSE IF chunk_len = 0
             THEN /\ k_hist' = [asked EXCEPT !.empty_stop = TRUE]
                  /\ k_pc' = "returned"
                  /\ k_returned' = k_batches
                  /\ UNCHANGED <<k_total_fetched, k_batches>>
             ELSE /\ k_hist' = [asked EXCEPT !.received = @ + chunk_len]
                  /\ k_batches' = kept
                  /\ k_total_fetched' =
                         FetchedAfter(k_total_fetched, chunk_results)
                  /\ UNCHANGED <<k_pc, k_returned>>
    /\ UNCHANGED <<k_rows, k_total_count, k_batch_size>>
    /\ UNCHANGED notChunkedVars

\* the loop condition is false: return batches
ReturnBatches ==
    /\ k_pc = "loop"
    /\ ~(k_total_fetched < k_total_count)
    /\ k_pc' = "returned"
    /\ k_returned' = k_batches
    /\ UNCHANGED <<k_rows, k_total_count, k_batch_size, k_total_fetched,
                   k_batches, k_hist>>
    /\ UNCHANGED notChunkedVars

ChunkedNext ==
    \/ EnterChunkedFetch
    \/ FetchChunk
    \/ ReturnBatches

SpecChunked == ChunkedInit /\ [][ChunkedNext]_vars

\* the function is run to its end: a pass of the loop that can be made is made
SpecChunkedFair == SpecChunked /\ WF_vars(ChunkedNext)


(***************************************************************************)
(* upload_maids_via_file of OptimizedMetaAPIClient: for each batch of the  *)
(* list a CSV file is built, a session is created, the file is posted in   *)
(* chunks of 5 MB and the session is closed.  Each request goes through    *)
(* _make_request, which returns the answer, returns None, or raises.       *)
(***************************************************************************)
\* chunk_size = 5 * 1024 * 1024
FileChunkBytes == 5242880
\* characters of one identifier (a UUID)
MaidChars == 36
\* len(maids), and how many of its first records have no 'madid'
FileUploadTotals == {0, 100000, 250000, 300000, 700000}
FileUploadEmpties == {0, 50000}
\* argument batch_size
FileBatchSizes == {100000, 300000, 10000000}
\* sizes gzip may give the file of a batch
CompressedSizes == {20, FileChunkBytes, FileChunkBytes + 1}

\* len(csv_content.encode()): the header and one line per record that has a
\* 'madid', joined by newlines
CsvBytes(madids) == 5 + madids * (MaidChars + 1)

\* (len(file_data) + chunk_size - 1) // chunk_size
TotalChunks(file_bytes) == (file_bytes + FileChunkBytes - 1) \div FileChunkBytes

\* "last_batch_flag": batch_end >= total_maids
LastBatchFlagAlways(batch_end, total_maids) == TRUE
LastBatchFlag(batch_end, total_maids) == batch_end >= total_maids

\* what a request of the function meets: an answer with 'success' true, an
\* answer without it, None from _make_request (response.get then raises
\* AttributeError), or the exception of _make_request
FileRequestResults == {"success", "other", "None", "raised"}
LeavesFunction(result) == result \in {"None", "raised"}

\* records of maids[batch_start:batch_end] that have a 'madid'
MadidsIn(batch_start, batch_end, empties) ==
    (batch_end - batch_start)
      - (IF empties > batch_start THEN Min(empties, batch_end) - batch_start
         ELSE 0)

FileUploadInit ==
    /\ v_pc = "batch"
    /\ v_total_maids \in FileUploadTotals
    /\ v_empties \in {n \in FileUploadEmpties : n <= v_total_maids}
    /\ v_batch_size \in FileBatchSizes
    /\ v_compress \in BOOLEAN
    /\ v_batch_start = 0
    /\ v_chunk_num = 0
    /\ v_total_chunks = 0
    /\ v_uploaded_count = 0
    /\ v_requests = <<>>
    /\ v_result = "none"
    /\ UploaderIdle
    /\ FetchIdle
    /\ RechunkIdle
    /\ RequestIdle
    /\ TransferIdle
    /\ PipelineIdle
    /\ PayloadIdle
    /\ StartupIdle
    /\ NameIdle
    /\ CreateIdle
    /\ ChunkedIdle
    /\ ResilientIdle
    /\ RollbackIdle

\* batch_num of the batch that starts at batch_start
BatchNum(batch_start, batch_size) == (batch_start \div batch_size) + 1

\* Steps 1 and 2 of a batch: the file is built and the session is created.
CreateSession ==
    /\ v_pc = "batch"
    /\ v_batch_start < v_total_maids
    /\ \E result \in FileRequestResults, gz \in CompressedSizes :
         LET batch_end == Min(v_batch_start + v_batch_size, v_total_maids)
             file_bytes == IF v_compress THEN gz
                           ELSE CsvBytes(MadidsIn(v_batch_start, batch_end,
                                                  v_empties))
         IN  /\ ~v_compress => gz = 20
             /\ v_requests' = Append(v_requests,
                    [kind |-> "session",
                     batch |-> BatchNum(v_batch_start, v_batch_size),
                     num |-> 0, of |-> TotalChunks(file_bytes),
                     flag |-> FALSE, success |-> FALSE])
             /\ IF LeavesFunction(result)
                THEN /\ v_pc' = "raised"
                     /\ v_result' = "raised"
                     /\ UNCHANGED <<v_total_chunks, v_chunk_num>>
                ELSE /\ v_pc' = "chunks"
                     /\ v_total_chunks' = TotalChunks(file_bytes)
                     /\ v_chunk_num' = 0
                     /\ UNCHANGED v_result
    /\ UNCHANGED <<v_total_maids, v_empties, v_batch_size, v_compress,
                   v_batch_start, v_uploaded_count>>
    /\ UNCHANGED notFileUploadVars

\* Step 3: one chunk of the file is posted
UploadFileChunk ==
    /\ v_pc = "chunks"
    /\ v_chunk_num < v_total_chunks
    /\ \E result \in FileRequestResults :
         /\ v_requests' = Append(v_requests,
                [kind |-> "chunk",
                 batch |-> BatchNum(v_batch_start, v_batch_size),
                 num |-> v_chunk_num + 1, of |-> v_total_chunks,
                 flag |-> FALSE, success |-> FALSE])
         /\ IF LeavesFunction(result)
            THEN /\ v_pc' = "raised"
                 /\ v_result' = "raised"
                 /\ UNCHANGED v_chunk_num
            ELSE /\ v_chunk_num' = v_chunk_num + 1
                 /\ UNCHANGED <<v_pc, v_result>>
    /\ UNCHANGED <<v_total_maids, v_empties, v_batch_size, v_compress,
                   v_batch_start, v_total_chunks, v_uploaded_count>>
    /\ UNCHANGED notFileUploadVars

\* Step 4: the session is closed, and the batch counted if the answer says
\* success
CloseSession ==
    /\ v_pc = "chunks"
    /\ ~(v_chunk_num < v_total_chunks)
    /\ \E result \in FileRequestResults :
         LET batch_end == Min(v_batch_start + v_batch_size, v_total_maids)
         IN  /\ v_requests' = Append(v_requests,
                    [kind |-> "close",
                     batch |-> BatchNum(v_batch_start, v_batch_size),
                     num |-> v_chunk_num, of |-> v_total_chunks,
                     flag |-> LastBatchFlag(batch_end, v_total_maids),
                     success |-> result = "success"])
             /\ IF LeavesFunction(result)
                THEN /\ v_pc' = "raised"
                     /\ v_result' = "raised"
                     /\ UNCHANGED <<v_batch_start, v_uploaded_count>>
                ELSE /\ v_pc' = "batch"
                     /\ v_batch_start' = v_batch_start + v_batch_size
                     /\ v_uploaded_count' =
                           IF result = "success"
                           THEN v_uploaded_count + (batch_end - v_batch_start)
                           ELSE v_uploaded_count
                     /\ UNCHANGED v_result
    /\ UNCHANGED <<v_total_maids, v_empties, v_batch_size, v_compress,
                   v_chunk_num, v_total_chunks>>
    /\ UNCHANGED notFileUploadVars

\* the loop over the batches is over: the result is returned
ReturnUploadResult ==
    /\ v_pc = "batch"
    /\ ~(v_batch_start < v_total_maids)
    /\ v_pc' = "returned"
    /\ v_result' = "returned"
    /\ UNCHANGED <<v_total_maids, v_empties, v_batch_size, v_compress,
                   v_batch_start, v_chunk_num, v_total_chunks,
                   v_uploaded_count, v_requests>>
    /\ UNCHANGED notFileUploadVars

FileUploadNext ==
    \/ CreateSession
    \/ UploadFileChunk
    \/ CloseSession
    \/ ReturnUploadResult

SpecFileUpload == FileUploadInit /\ [][FileUploadNext]_vars


(***************************************************************************)
(* add_users_batch_with_retry of ResilientMetaAPIClient: up to max_retries *)
(* posts of the same payload, each under the timeout() alarm, every        *)
(* exception caught inside the loop.                                       *)
(***************************************************************************)
\* What one pass of the loop meets:
\*   200_json          status 200 and a body response.json() parses to a dict
\*   200_bad_body      status 200 and a body response.json() raises on
\*   408               status 408
\*   error_status      any other status
\*   TimeoutException  the alarm of timeout() went off
\*   ConnectionError   requests.exceptions.ConnectionError
\*   other_exception   any other Exception (ReadTimeout, RetryError, ...)
AttemptOutcomes == {"200_json", "200_bad_body", "408", "error_status",
                    "TimeoutException", "ConnectionError", "other_exception"}

\* what is raised inside the try block of a pass, "none" if nothing is:
\* response.json() raises a ValueError on a body that is not JSON
RaisedInPass(outcome) ==
    CASE outcome = "200_bad_body" -> "other_exception"
      [] outcome \in {"TimeoutException", "ConnectionError",
                      "other_exception"} -> outcome
      [] OTHER -> "none"

\* the except clauses: TimeoutException, ConnectionError, then Exception
CaughtNamedOnly(exception) ==
    exception \in {"TimeoutException", "ConnectionError"}
Caught(exception) ==
    exception \in {"TimeoutException", "ConnectionError", "other_exception"}

\* if attempt < max_retries - 1: ... continue
RetriesAfterError(attempt, max_retries) == attempt < max_retries - 1

\* values of argument max_retries
RetryArguments == 0..MaxRetryArgument

ResilientInit ==
    /\ b_pc = "loop"
    /\ b_max_retries \in RetryArguments
    /\ b_attempt = 0
    /\ b_outcomes = <<>>
    /\ b_result = "none"
    /\ UploaderIdle
    /\ FetchIdle
    /\ RechunkIdle
    /\ RequestIdle
    /\ TransferIdle
    /\ PipelineIdle
    /\ PayloadIdle
    /\ StartupIdle
    /\ NameIdle
    /\ CreateIdle
    /\ ChunkedIdle
    /\ FileUploadIdle
    /\ RollbackIdle

\* One pass of the for loop.  A 408 always continues; another error status
\* and a caught exception continue unless this was the last attempt, in
\* which case {'success': False, ...} is returned.
PostBatchAttempt ==
    /\ b_pc = "loop"
    /\ b_attempt < b_max_retries
    /\ \E outcome \in AttemptOutcomes :
         LET exception == RaisedInPass(outcome) IN
         /\ b_outcomes' = Append(b_outcomes, outcome)
         /\ IF exception # "none" /\ ~Caught(exception)
            THEN /\ b_pc' = "done"
                 /\ b_result' = "raised"
                 /\ UNCHANGED b_attempt
            ELSE IF outcome = "200_json"
            THEN /\ b_pc' = "done"
                 /\ b_result' = "success"
                 /\ UNCHANGED b_attempt
            ELSE IF outcome = "408"
                    \/ RetriesAfterError(b_attempt, b_max_retries)
            THEN /\ b_attempt' = b_attempt + 1
                 /\ UNCHANGED <<b_pc, b_result>>
            ELSE /\ b_pc' = "done"
                 /\ b_result' = "failure"
                 /\ UNCHANGED b_attempt
    /\ UNCHANGED b_max_retries
    /\ UNCHANGED notResilientVars

\* the loop is over: return {'success': False, 'error': 'Failed after ...'}
ReturnFailedAfter ==
    /\ b_pc = "loop"
    /\ ~(b_attempt < b_max_retries)
    /\ b_pc' = "done"
    /\ b_result' = "failure"
    /\ UNCHANGED <<b_max_retries, b_attempt, b_outcomes>>
    /\ UNCHANGED notResilientVars

ResilientNext ==
    \/ PostBatchAttempt
    \/ ReturnFailedAfter

SpecResilient == ResilientInit /\ [][ResilientNext]_vars


(***************************************************************************)
(* rollback_uploads of AudienceUploadManager, called by main.py with no    *)
(* argument when upload_audiences_batch is over: delete_audience for every *)
(* id of created_audiences, each call in a try / except of its own.       *)
(***************************************************************************)
\* delete_audience returns response.get("success", False) or raises
DeleteOutcomes == {"true", "false", "raises"}

\* the calls a loop would make that leaves at the first raising delete
RECURSIVE CallsUntilRaise(_)
CallsUntilRaise(outcomes) ==
    IF outcomes = <<>> THEN 0
    ELSE IF Head(outcomes) = "raises" THEN 1
    ELSE 1 + CallsUntilRaise(Tail(outcomes))

\* number of delete calls made for the ids, given what each call would meet:
\* an exception is caught inside the loop body and logged, the loop goes on
DeleteCalls(outcomes) == Len(outcomes)

\* deleted: the calls that returned a truthy value
Deleted(calls) == Cardinality({i \in 1..Len(calls) : calls[i] = "true"})

RollbackInit ==
    /\ progress_file \in {MissingFile, CorruptFile}
                          \cup {ValidFile(c, <<>>) : c \in SUBSET AudienceNames}
    /\ audiences \in SeqsUpTo(AudienceNames, MaxRollbackListLen)
    /\ completed_audiences = {}
    /\ upload_stats = InitialStats
    /\ created_audiences = <<>>
    /\ remaining_audiences = <<>>
    /\ u_idx = 1
    /\ u_pc = "init"
    /\ u_run = 1
    /\ sink_log = {}
    /\ u_hist = InitialHist
    /\ rb_calls = <<>>
    /\ rb_deleted = 0
    /\ rb_before = <<>>
    /\ FetchIdle
    /\ RechunkIdle
    /\ RequestIdle
    /\ TransferIdle
    /\ PipelineIdle
    /\ PayloadIdle
    /\ StartupIdle
    /\ NameIdle
    /\ CreateIdle
    /\ ChunkedIdle
    /\ FileUploadIdle
    /\ ResilientIdle

\* rollback_uploads(): the whole loop over the ids of created_audiences.
\* Nothing of the manager is assigned to.
RollbackUploads ==
    /\ u_pc = "done"
    /\ \E outcomes \in [1..Len(created_audiences) -> DeleteOutcomes] :
         LET calls == SubSeq(outcomes, 1, DeleteCalls(outcomes)) IN
         /\ rb_calls' = calls
         /\ rb_deleted' = Deleted(calls)
    /\ rb_before' = [completed |-> completed_audiences,
                     created |-> created_audiences,
                     file |-> progress_file]
    /\ u_pc' = "rolled_back"
    /\ UNCHANGED <<progress_file, completed_audiences, upload_stats,
                   created_audiences, audiences, remaining_audiences, u_idx,
                   u_run, sink_log, u_hist>>
    /\ UNCHANGED <<fetchVars, rechunkVars, requestVars, transferVars,
                   pipelineVars, payloadVars, startupVars, nameVars,
                   createVars, chunkedVars, fileUploadVars, resilientVars>>

RollbackNext ==
    \/ UploaderNext
    \/ RollbackUploads

SpecRollback == RollbackInit /\ [][RollbackNext]_vars

\* records of the chunks whose append call returned are all that is counted
UploadedWithinFetched == t_total_uploaded <= t_maid_count

\* C9: in every group-transfer routine, once the routine has returned after
\* an append call for one chunk failed, every chunk of the group has been
\* handed to an append call all the same.
C9_FailedChunkDoesNotAbortGroup ==
    (t_pc = "done" /\ t_hist.chunks_failed >= 1)
        => t_hist.chunks_sent = t_hist.chunks_total

\* the group went through its whole chunk loop in upload_app_audience_optimized
OptimizedGroupDone ==
    /\ t_routine = "upload_app_audience_optimized"
    /\ t_pc = "done"
    /\ t_hist.chunks_total > 0
    /\ t_hist.chunks_sent = t_hist.chunks_total

\* the fraction of failed chunks is at or above 5%
FailureRatioAtOrAboveThreshold ==
    100 * t_hist.chunks_failed >= 5 * t_hist.chunks_total

CreatedNotPopulatedStatuses ==
    {"skipped", "created_fetch_failed", "created_no_upload", "created_empty"}

\* statuses of a failed group
FailedStatuses == {"error", "failed", "upload_failed"}

\* the routine returned because its fetch raised, the audience being created
FetchRaisedAfterCreate(routine) ==
    /\ t_routine = routine
    /\ t_pc = "done"
    /\ t_hist.create_calls = 1
    /\ t_hist.fetch_raised

LoopKeptGoing ==
    /\ m_pc = "loop" => Len(m_results) = m_i - 1
    /\ m_pc = "done" => Len(m_results) = Len(m_apps)

C13_NoDuplicateRemoteGroup ==
    \A name \in AppNames : m_sink[name] <= 1

\* the routines that ask for the count before they create the audience
CountingRoutines ==
    {"upload_app_audience_optimized", "upload_single_app_audience",
     "upload_app_safely", "process_large_app"}

\* the routine returned, its count query having given zero
ReturnedOnZeroCount ==
    /\ t_routine \in CountingRoutines
    /\ t_pc = "done"
    /\ t_hist.count_calls = 1
    /\ t_hist.seen_count = 0

C15_CountFailureIsNotZeroRecords ==
    (t_pc = "done" /\ t_hist.count_raised /\ t_maid_count > 0) =>
        /\ t_hist.seen_count # 0
        /\ t_result.status \in FailedStatuses

NothingFailed ==
    /\ ~t_hist.list_raised
    /\ ~t_hist.count_raised
    /\ ~t_hist.create_raised
    /\ ~t_hist.fetch_raised
    /\ ~t_hist.fetch_count_raised
    /\ t_hist.chunks_failed = 0
    /\ t_audience_id # "existing"

\* C17: for a group of three identifiers, with batch size 2 and no failure,
\* upload_app_audience_optimized calls create_custom_audience once, makes
\* two append calls, of 2 and then 1 records, and returns success with an
\* uploaded count of 3.
C17_EndToEndThreeRecords ==
    (/\ t_routine = "upload_app_audience_optimized"
     /\ t_pc = "done"
     /\ t_maid_count = 3
     /\ t_batch_size = 2
     /\ NothingFailed) =>
        /\ t_hist.create_calls = 1
        /\ t_hist.chunks_sent = 2
        /\ t_hist.sizes = <<2, 1>>
        /\ t_result.status = "success"
        /\ t_result.has_maids_uploaded
        /\ t_result.maids_uploaded = 3
        /\ t_result.audience_id = "created"

\* the group of three transferred without a failure
C17_Witness ==
    /\ t_routine = "upload_app_audience_optimized"
    /\ t_pc = "done"
    /\ t_maid_count = 3
    /\ t_batch_size = 2
    /\ NothingFailed
    /\ t_hist.sizes = <<2, 1>>
    /\ t_result.maids_uploaded = 3

\* the routines with the chunk loop that counts users_uploaded
ChunkCountingRoutines == {"upload_app_audience_optimized", "upload_app_safely"}

\* records of the chunk the next append call is made for
NextChunkLen ==
    Min(ChunkSize(t_routine, t_batch_size, t_batches[t_b]),
        t_batches[t_b] - t_i)

UploadedCountStep ==
    (t_routine \in ChunkCountingRoutines /\ t_pc = "uploading") =>
        /\ t_total_uploaded' >= t_total_uploaded
        /\ IF t_hist'.chunks_sent = t_hist.chunks_sent + 1
           THEN t_total_uploaded' \in
                    {t_total_uploaded, t_total_uploaded + NextChunkLen}
           ELSE t_total_uploaded' = t_total_uploaded
        /\ t_total_uploaded' <= t_hist.maids_fetched
        /\ t_pc' = "done" =>
               /\ t_result'.maids_uploaded <= t_hist.maids_fetched
               /\ t_result'.maids_uploaded \in {0, t_total_uploaded}

\* C18: within one group of upload_app_audience_optimized or
\* upload_app_safely the uploaded count never decreases, an append call adds
\* the records of its chunk at most once whatever number of HTTP attempts
\* the request took, and the uploaded count, the one of the returned result
\* included, never exceeds the number of records fetched for the group.
C18_UploadedCountMonotoneOncePerChunk == [][UploadedCountStep]_vars

\* a group returned after two or more append calls, one of them needing
\* more than one HTTP attempt and one of them failing, part of it uploaded
C18_Witness ==
    /\ t_routine \in ChunkCountingRoutines
    /\ t_pc = "done"
    /\ t_hist.retried
    /\ t_hist.chunks_sent >= 2
    /\ t_hist.chunks_failed >= 1
    /\ t_result.maids_uploaded > 0
    /\ t_result.maids_uploaded < t_hist.maids_fetched

\* the audiences of the list the filter of upload_audiences_batch leaves in
LeftIn ==
    SelectSeq(audiences, LAMBDA a : a \notin u_hist.completed_at_start)

\* C19: upload_audiences_batch hands the groups to upload_single_audience
\* one at a time in the order of the audience list, the groups that were in
\* the completed set when the loop began being left out and the others
\* keeping their order, and every Sink call of a group comes before the
\* first Sink call of the group after it.
C19_GroupsInInputOrder ==
    u_pc \in {"loop", "done", "aborted"} =>
        /\ remaining_audiences = LeftIn
        /\ Len(u_hist.attempted) = u_idx - 1
        /\ u_hist.attempted = SubSeq(LeftIn, 1, u_idx - 1)
        /\ \A k \in 1..Len(u_hist.calls) :
              /\ u_hist.calls[k][1] \in 1..(u_idx - 1)
              /\ k > 1 => u_hist.calls[k - 1][1] <= u_hist.calls[k][1]

\* a list of three of which one group was completed before and is left out,
\* the two others handled in their order with Sink calls for both
C19_Witness ==
    /\ u_pc = "done"
    /\ Len(audiences) = 3
    /\ Len(remaining_audiences) = 2
    /\ remaining_audiences[1] # remaining_audiences[2]
    /\ u_hist.attempted = remaining_audiences
    /\ \E j, k \in 1..Len(u_hist.calls) :
          u_hist.calls[j][1] = 1 /\ u_hist.calls[k][1] = 2

\* C20: when the operator interrupts main of optimized_etl_pipeline.py while
\* a group is in its chunk loop, the progress file holds, once the process
\* has gone, a result for that group as well as for the groups before it.
C20_InterruptPersistsGroupResult ==
    (m_pc = "interrupted" /\ t_pc = "uploading") =>
        /\ m_progress.kind = "valid"
        /\ m_progress.results >= m_i

\* a group of this run ended with a failed or error status
SomeGroupFailed ==
    \E k \in 1..Len(m_results) : m_results[k].status \in FailedStatuses

\* C21: when main of optimized_etl_pipeline.py has returned, the exit code
\* of the process is non-zero exactly when a group of the run ended with a
\* failed or error status.
C21_ExitCodeReflectsFailedGroup ==
    m_pc = "done" => ((main_exit_code(m_pc) # 0) <=> SomeGroupFailed)

\* a credential or setting the entry point needs is not in the environment
MissingRequired ==
    \/ ~s_env.token
    \/ ~s_env.account
    \/ UsesSource(s_entry) /\ ~s_env.snowflake

\* C22: when a required credential or setting is missing at the start of an
\* entry point, no Source query and no Sink call is made, whatever the
\* command-line flags.
C22_MissingSettingsNoCalls ==
    MissingRequired => s_calls = NoCalls

\* upload_single_app_audience was called with dry_run set
DryRunGroup ==
    /\ t_routine = "upload_single_app_audience"
    /\ t_pc # "start"
    /\ t_hist.dry_run

\* C23: upload_single_app_audience with dry_run set returns before any
\* create_custom_audience or add_users_to_audience call (and before the
\* fetch), with status 'dry_run' when the count the Source gave is not zero
\* and 'skipped' when it is zero.
C23_DryRunCreatesAndAppendsNothing ==
    DryRunGroup =>
        /\ t_pc = "done"
        /\ t_hist.create_calls = 0
        /\ t_hist.fetch_calls = 0
        /\ t_hist.chunks_sent = 0
        /\ t_result.audience_id = "none"
        /\ t_result.status =
              IF t_hist.seen_count > 0 THEN "dry_run" ELSE "skipped"

\* a dry run of a group the store holds records for
C23_Witness ==
    /\ DryRunGroup
    /\ t_hist.count_calls = 1
    /\ t_hist.seen_count > 0
    /\ t_result.status = "dry_run"

\* the characters a display name may hold
AllowedNameChars == AsciiAlnum \cup {" ", "_", "-"}

\* C24: the display name create_audience_name and
\* create_correct_audience_name derive has at most 200 characters, holds
\* only characters of [A-Za-z0-9 _-], and has no run of white space.
C24_DisplayNameWithinLimits ==
    (/\ n_pc = "done"
     /\ n_function \in {"create_audience_name",
                        "create_correct_audience_name"}) =>
        /\ Len(n_name) <= 200
        /\ \A k \in 1..Len(n_name) : n_name[k] \in AllowedNameChars
        /\ ~HasTwoSpaces(n_name)

\* the display name of the worked example
HitItRichDisplayName ==
    <<"U", "S", "_">> \o Android \o <<"_">>
    \o replace(SelectSeq(HitItRich, LAMBDA c : c # "!"), " ", <<"_">>)
    \o <<"_", "P", "I", "E">>

\* C25: for the app name 'Hit it Rich! Free Casino Slots' and the platform
\* 'Android' create_audience_name and create_correct_audience_name both
\* give US_Android_Hit_it_Rich_Free_Casino_Slots_PIE.
C25_HitItRichDisplayName ==
    (/\ n_pc = "done"
     /\ n_function \in {"create_audience_name",
                        "create_correct_audience_name"}
     /\ n_app_name = HitItRich
     /\ n_os = Android) =>
        n_name = HitItRichDisplayName

\* C26: in upload_app_audience_optimized and upload_app_safely the records
\* of a chunk are added to the uploaded count only when the Sink answered
\* the chunk's request with success: a chunk whose every attempt was
\* answered 429 or failed adds nothing.
C26_UnansweredChunkNotCounted ==
    t_routine \in ChunkCountingRoutines => ~t_hist.unanswered_counted

\* C27: when one append call of upload_app_with_optimized_method spans
\* several batches and a later batch fails terminally, the records of the
\* batches the Sink had accepted before are in the uploaded count recorded
\* for the group.
C27_AcceptedRecordsReported ==
    (rc_call = "ended" /\ rc_result.status = "error") =>
        rc_result.maids_uploaded >= rc_accepted

\* C28: every audience the Sink created for a group of main_with_snowflake
\* is returned with its id by upload_audience_with_maids, from which main
\* fills created_audiences, also when the fetch or an append of the group
\* failed afterwards.
C28_CreatedGroupRecorded ==
    (t_routine = "upload_audience_with_maids" /\ t_pc = "done"
        /\ t_audience_id = "created") =>
        t_result.audience_id = "created"

\* C29: the completed set that was in the progress file when a process
\* started is still in the file after every save_progress of that process
\* (the file system failing no write).
C29_CheckpointCumulative ==
    (u_pc \in {"loop", "done"} /\ u_hist.loaded_from = "valid"
        /\ ~u_hist.io_fault) =>
        /\ progress_file.kind = "valid"
        /\ u_hist.completed_at_start \subseteq progress_file.completed

\* C30: over the runs that share the progress file, the Sink creates at
\* most one audience per audience name: a run that follows one which
\* created the audience and failed at the append creates no second.
C30_OneRemoteGroupPerName ==
    \A name \in AudienceNames :
        Cardinality({run \in 1..MaxRuns :
                        <<run, name, "created">> \in sink_log}) <= 1

\* C31: one call of create_custom_audience makes the Sink create at most one
\* audience, whatever lost responses, timeouts and error statuses make
\* _make_request send the creation request again.
C31_OneCallOneRemoteGroup == c_created <= 1

\* rows in a list of batches
RECURSIVE ReturnedRows(_)
ReturnedRows(batches) ==
    IF batches = <<>> THEN 0
    ELSE BatchLen(Head(batches)) + ReturnedRows(Tail(batches))

\* C32: when a query of _fetch_large_dataset_chunked raises, the function
\* returns the batches completed so far if there is at least one, as the
\* plain list it returns on success, and raises only if there is none.
C32_PartialFetchReturned ==
    (k_pc \in {"returned", "raised"} /\ k_hist.failed) =>
        IF k_batches # <<>>
        THEN k_pc = "returned" /\ k_returned = k_batches
        ELSE k_pc = "raised"

\* a query raised after batches were completed: the list is returned, with
\* fewer rows than total_count
C32_Witness ==
    /\ k_pc = "returned"
    /\ k_hist.failed
    /\ k_returned # <<>>
    /\ ReturnedRows(k_returned) < k_total_count

\* a pass of the loop: its query asks for the offset that is the number of
\* rows the earlier queries returned, and the pass either ends the loop or
\* leaves total_fetched larger
ChunkPassProgress ==
    (k_pc = "loop" /\ k_hist'.queries > k_hist.queries) =>
        /\ k_hist'.offset = k_hist.received
        /\ k_hist'.empty_stop => k_pc' = "returned"
        /\ k_pc' = "loop" => k_total_fetched' > k_total_fetched

\* C33: _fetch_large_dataset_chunked terminates for every total count and
\* every behaviour of the store: each pass of the loop stops on an empty
\* answer or strictly increases total_fetched, and the offset of each query
\* is the number of rows the earlier queries fetched.
C33_ChunkedFetchTerminates ==
    /\ [][ChunkPassProgress]_vars
    /\ <>(k_pc \in {"returned", "raised"})

\* the loop ran through several queries to its end, no query empty or raising
C33_Witness ==
    /\ k_pc = "returned"
    /\ k_hist.queries >= 3
    /\ ~k_hist.failed
    /\ ~k_hist.empty_stop

\* positions in v_requests of the requests of a kind made for a batch
RequestsOf(kind, batch) ==
    {i \in 1..Len(v_requests) :
        v_requests[i].kind = kind /\ v_requests[i].batch = batch}

\* number of batches, and len(batch) of the batch numbered b
FileBatches == (v_total_maids + v_batch_size - 1) \div v_batch_size
FileBatchLen(b) ==
    Min(b * v_batch_size, v_total_maids) - (b - 1) * v_batch_size

\* records of the batches whose close was answered with success
RECURSIVE ClosedWithSuccess(_)
ClosedWithSuccess(i) ==
    IF i = 0 THEN 0
    ELSE ClosedWithSuccess(i - 1)
         + (IF v_requests[i].kind = "close" /\ v_requests[i].success
            THEN FileBatchLen(v_requests[i].batch) ELSE 0)

\* C34: in upload_maids_via_file the session of a batch is created before
\* any chunk of the batch is posted, every chunk is posted before the close
\* request, last_batch_flag is true on the close of the final batch and of
\* no other, and a batch's records are added to users_uploaded only when the
\* close answer reports success.
C34_FileUploadProtocol ==
    /\ \A i \in 1..Len(v_requests) :
          LET q == v_requests[i] IN
          /\ q.kind = "chunk" =>
                /\ \E j \in RequestsOf("session", q.batch) : j < i
                /\ \A j \in RequestsOf("close", q.batch) : i < j
          /\ q.kind = "close" =>
                /\ \E j \in RequestsOf("session", q.batch) : j < i
                /\ q.of >= 1
                /\ {v_requests[j].num : j \in RequestsOf("chunk", q.batch)}
                      = 1..q.of
                /\ q.flag <=> q.batch = FileBatches
    /\ v_uploaded_count = ClosedWithSuccess(Len(v_requests))

\* a call that returned after several batches, one of them posted in more
\* than one chunk, one closed with success and one closed without
C34_Witness ==
    /\ v_pc = "returned"
    /\ FileBatches >= 2
    /\ \E i, j, k \in 1..Len(v_requests) :
          /\ v_requests[i].kind = "close" /\ v_requests[i].success
          /\ v_requests[j].kind = "close" /\ ~v_requests[j].success
          /\ v_requests[k].kind = "chunk" /\ v_requests[k].num >= 2

\* the passes of the loop that were answered with the given outcomes
PassesWith(outcomes) ==
    {i \in 1..Len(b_outcomes) : b_outcomes[i] \in outcomes}

\* C35: add_users_batch_with_retry never raises and ends after at most
\* max_retries attempts; it returns success=True on the first attempt that
\* is answered with HTTP 200 and success=False otherwise.
C35_RetryNeverRaises ==
    /\ b_result # "raised"
    /\ Len(b_outcomes) <= b_max_retries
    /\ PassesWith({"200_json", "200_bad_body"}) # {} =>
          /\ b_pc = "done"
          /\ b_result = "success"
          /\ PassesWith({"200_json", "200_bad_body"}) = {Len(b_outcomes)}
    /\ (b_pc = "done" /\ PassesWith({"200_json", "200_bad_body"}) = {}) =>
          b_result = "failure"

\* C35 amended: add_users_batch_with_retry never raises and ends after at
\* most max_retries attempts; it returns success=True on the first attempt
\* answered with HTTP 200 and a body that parses as JSON, treats a 200 whose
\* body does not parse like any other failed attempt, and returns
\* success=False otherwise.
C35_RetryNeverRaisesParsedBody ==
    /\ b_result # "raised"
    /\ Len(b_outcomes) <= b_max_retries
    /\ PassesWith({"200_json"}) # {} =>
          /\ b_pc = "done"
          /\ b_result = "success"
          /\ PassesWith({"200_json"}) = {Len(b_outcomes)}
    /\ (b_pc = "done" /\ PassesWith({"200_json"}) = {}) =>
          b_result = "failure"

\* a call that met a timeout, then a 200 with an unparsable body, then a
\* 408 on its last attempt, and returned success=False
C35_Witness ==
    /\ b_pc = "done"
    /\ b_result = "failure"
    /\ b_outcomes = <<"TimeoutException", "200_bad_body", "408">>

\* C36: rollback_uploads changes neither the completed set, nor
\* created_audiences, nor the progress file, so the deleted groups stay
\* recorded as completed; a delete that fails does not stop the deletion of
\* the others; the number returned is the count of delete calls that
\* reported success.
C36_RollbackLeavesCheckpoint ==
    u_pc = "rolled_back" =>
        /\ completed_audiences = rb_before.completed
        /\ created_audiences = rb_before.created
        /\ progress_file = rb_before.file
        /\ Len(rb_calls) = Len(created_audiences)
        /\ rb_deleted = Cardinality({i \in 1..Len(rb_calls) :
                                        rb_calls[i] = "true"})
        /\ \A i \in 1..Len(rb_calls) :
              (rb_calls[i] = "true"
                  /\ created_audiences[i] \in rb_before.completed)
                 => created_audiences[i] \in completed_audiences

\* a rollback whose first delete raised and whose second deleted a group that
\* is recorded as completed
C36_Witness ==
    /\ u_pc = "rolled_back"
    /\ Len(rb_calls) = 2
    /\ rb_calls[1] = "raises"
    /\ rb_calls[2] = "true"
    /\ created_audiences[2] \in completed_audiences
    /\ rb_deleted = 1
====
